---- MODULE Spec2Model ----
(***************************************************************************)
(* Manufactured home registration aggregate (mhr-api): the chain root and  *)
(* its change registrations, the pay_and_save_* flows that extend the      *)
(* chain in two commits, owner group supersession, and the caution/permit  *)
(* note scans over the chain.                                              *)
(***************************************************************************)
EXTENDS Integers, Sequences, FiniteSets, TLC

VARIABLES
    base_reg,               \* mhr_registrations row of type MHREG (id 0: none yet)
    change_registrations,   \* committed change registrations, ordered by registration_ts
    reg_seq,                \* last value of the registration id sequence
    pay_seq,                \* last invoice id handed out by the payment service
    now_ts,                 \* the clock read by model_utils.now_ts()
    flow                    \* per request: position and locals of a pay_and_save_* call

vars == <<base_reg, change_registrations, reg_seq, pay_seq, now_ts, flow>>

----------------------------------------------------------------------------
(* Bounds of the model *)

\* number of payments (pay_and_save_* calls that reach the payment service),
\* for each specification below
MaxFlows == 4
MaxCautionFlows == 3
MaxRaceFlows == 3
MaxAllFlows == 2
\* last tick of the clock
MaxTypeFlows == 3
MaxClockFlows == 3
\* requests served when the owner groups of a new registration are examined
MaxGroupFlows == 2
\* most entries of a payload's ownerGroups
MaxOwnerGroups == 2
\* requests served when permits are registered, amended and cancelled
MaxPermitFlows == 4
\* registrations built when the builders are examined
MaxBuilds == 2
MaxTime == 2
\* largest groupId a deleteOwnerGroups entry names
MaxGroupId == 3

Procs == {1, 2}
RootGroupCounts == {1, 2}
AddCounts == {0, 1}

----------------------------------------------------------------------------
(* Type tables *)

ACTIVE == "ACTIVE"
PREVIOUS == "PREVIOUS"
CANCELLED == "CANCELLED"
EXEMPT == "EXEMPT"

MHREG == "MHREG"
MHREG_CONVERSION == "MHREG_CONVERSION"
TRANS == "TRANS"
TRANS_AFFIDAVIT == "TRANS_AFFIDAVIT"
\* model_utils.STATUS_FROZEN and the document type shown with it.
FROZEN == "FROZEN"
AFFE == "AFFE"
TRAND == "TRAND"
EXEMPTION_RES == "EXEMPTION_RES"
EXEMPTION_NON_RES == "EXEMPTION_NON_RES"
PERMIT == "PERMIT"
PERMIT_EXTENSION == "PERMIT_EXTENSION"
AMENDMENT == "AMENDMENT"
REG_NOTE == "REG_NOTE"
REG_STAFF_ADMIN == "REG_STAFF_ADMIN"

CautionTypes == {"CAU", "CAUC", "CAUE"}
PermitTypes == {"REG_103", "REG_103E", "AMEND_PERMIT"}

\* The keys of REG_TO_DOC_TYPE; any other registration type is a KeyError.
REG_TO_DOC_KEYS ==
    {"DECAL_REPLACE", "EXEMPTION_NON_RES", "EXEMPTION_RES", "MHREG", "PERMIT",
     "PERMIT_EXTENSION", "TRAND", "TRANS", "TRANS_AFFIDAVIT", "TRANS_ADMIN",
     "TRANS_WILL", "REG_STAFF_ADMIN", "REG_NOTE"}

REG_TO_DOC_TYPE(registration_type) ==
    CASE registration_type = "DECAL_REPLACE" -> "REG_102"
      [] registration_type = "TRANS_AFFIDAVIT" -> "AFFE"
      [] registration_type = "TRANS_ADMIN" -> "LETA"
      [] registration_type = "TRANS_WILL" -> "WILL"
      [] registration_type = "EXEMPTION_NON_RES" -> "EXNR"
      [] registration_type = "EXEMPTION_RES" -> "EXRS"
      [] registration_type = "MHREG" -> "REG_101"
      [] registration_type = "PERMIT" -> "REG_103"
      [] registration_type = "PERMIT_EXTENSION" -> "REG_103E"
      [] registration_type = "TRAND" -> "DEAT"
      [] registration_type = "TRANS" -> "TRAN"
      [] registration_type = "REG_STAFF_ADMIN" -> "CAU"
      [] registration_type = "REG_NOTE" -> "CAU"

\* The accounts a request may come from: none, or an account id.
NO_ACCOUNT == ""
Accounts == {NO_ACCOUNT, "PS12345"}

----------------------------------------------------------------------------
(* Entities *)

\* The MHR number the draft of the new registration was given.
MHR_NUMBER == "000900"

NoReg == [id |-> 0, mhr_number |-> "", registration_type |-> "", registration_ts |-> 0,
          status_type |-> "", document_type |-> "", owner_groups |-> <<>>, notes |-> <<>>,
          locations |-> <<>>, descriptions |-> <<>>, sections |-> <<>>]

\* A location, description or section row of a registration; a location
\* carries the tax certificate information (tax_certification: "Y" or not).
MhrLocation(registration_id) ==
    [registration_id |-> registration_id, change_registration_id |-> registration_id, status_type |-> ACTIVE, tax_certification |-> FALSE]

MhrDescription(registration_id) ==
    [registration_id |-> registration_id, change_registration_id |-> registration_id, status_type |-> ACTIVE]

MhrSection(registration_id) ==
    [registration_id |-> registration_id, change_registration_id |-> registration_id, status_type |-> ACTIVE]

\* Party types of an owner.
OWNER_IND == "OWNER_IND"
OWNER_BUS == "OWNER_BUS"
EXECUTOR == "EXECUTOR"

MhrParty(status) == [status_type |-> status, change_registration_id |-> 0, deceased |-> FALSE, party_type |-> OWNER_IND]

\* One entry of a group's owners in the payload: the partyType given ("": none)
\* and whether individualName and organizationName are present.
OwnerJson(partyType, individualName, organizationName) ==
    [partyType |-> partyType, individualName |-> individualName,
     organizationName |-> organizationName]

\* MhrParty.create_from_json: an ACTIVE owner of the party type it is given.
MhrParty_create_from_json(owner_json, party_type, registration_id) ==
    [MhrParty(ACTIVE) EXCEPT !.party_type = party_type]

\* Tenancy types of an owner group.
COMMON == "COMMON"
JOINT == "JOINT"
SOLE == "SOLE"

\* An owner group row.  interest_numerator / interest_denominator 0 is an unset
\* interest; group_sequence_number is the display position of the group;
\* modified marks a row changed in this session.  The numerator is the number
\* interest_numerator + interest_numerator_remainder / d, with d the divisor
\* of the division that produced it: an integer exactly when the remainder is 0.
MhrOwnerGroup(group_id, registration_id) ==
    [group_id |-> group_id, registration_id |-> registration_id, status_type |-> ACTIVE,
     change_registration_id |-> registration_id, owners |-> <<MhrParty(ACTIVE)>>,
     tenancy_type |-> SOLE, interest_numerator |-> 0, interest_denominator |-> 0,
     interest_numerator_remainder |-> 0, modified |-> FALSE,
     group_sequence_number |-> 1]

\* One entry of the payload's ownerGroups: the group id the caller declared,
\* the tenancy type and the interest fraction (0: no interest given).
GroupJson(groupId, type, interestNumerator, interestDenominator) ==
    [groupId |-> groupId, type |-> type, interestNumerator |-> interestNumerator,
     interestDenominator |-> interestDenominator,
     owners |-> <<OwnerJson("", TRUE, FALSE)>>]

\* MhrOwnerGroup.create_from_json: a new ACTIVE group of the registration that
\* carries the tenancy type and the interest of the payload entry.
MhrOwnerGroup_create_from_json(group_json, registration_id) ==
    [MhrOwnerGroup(0, registration_id) EXCEPT
        !.tenancy_type = group_json.type,
        !.interest_numerator = group_json.interestNumerator,
        !.interest_denominator = group_json.interestDenominator,
        !.group_sequence_number = 0]

MhrNote(document_type, expiry_date, change_registration_id) ==
    [document_type |-> document_type, status_type |-> ACTIVE, expiry_date |-> expiry_date,
     change_registration_id |-> change_registration_id]

\* The request payload (json_data): one record shape for every transaction kind.
\* ownerGroups is the sequence of GroupJson entries (<<>>: absent or empty),
\* addOwnerGroups is the sequence of GroupJson entries (<<>>: absent or empty;
\* the constructor takes the number of entries and gives the k-th the groupId k),
\* hasDeleteOwnerGroups tells whether the deleteOwnerGroups key is present,
\* expiryDateTime 0 is an absent expiry, noteDocumentType is note.documentType
\* ("": no note), and "" is an absent documentType, transferDocumentType,
\* cancelDocumentId or updateDocumentId.  hasOwnerGroups and hasLocation tell
\* whether the keys ownerGroups and location are present, hasDescription and
\* hasNewLocation whether description and newLocation are.
Json(registrationType, ownerGroups, addCount, hasDelete, deleteOwnerGroups, nonResidential, amendment, extension, noteDocumentType, expiryDateTime) ==
    [registrationType |-> registrationType, ownerGroups |-> ownerGroups,
     addOwnerGroups |-> [k \in 1..addCount |-> GroupJson(k, SOLE, 0, 0)],
     hasDeleteOwnerGroups |-> hasDelete,
     deleteOwnerGroups |-> deleteOwnerGroups, nonResidential |-> nonResidential,
     amendment |-> amendment, extension |-> extension,
     noteDocumentType |-> noteDocumentType, expiryDateTime |-> expiryDateTime,
     documentType |-> "", transferDocumentType |-> "",
     cancelDocumentId |-> "", updateDocumentId |-> "",
     hasOwnerGroups |-> TRUE, hasLocation |-> TRUE,
     hasDescription |-> TRUE, hasNewLocation |-> TRUE]

NoJson == Json("", <<>>, 0, FALSE, {}, FALSE, FALSE, FALSE, "", 0)

----------------------------------------------------------------------------
(* Owner group lifecycle *)

ActiveGroups(reg) ==
    Cardinality({i \in DOMAIN reg.owner_groups : reg.owner_groups[i].status_type = ACTIVE})

RECURSIVE ActiveGroupsIn(_)
ActiveGroupsIn(regs) ==
    IF regs = <<>> THEN 0 ELSE ActiveGroups(Head(regs)) + ActiveGroupsIn(Tail(regs))

\* reg_utils.get_owner_group_count(base_reg): the number of owner groups
\* currently active on the aggregate (chain root and change registrations).
get_owner_group_count(current_reg) ==
    ActiveGroups(current_reg.reg) + ActiveGroupsIn(current_reg.change_registrations)

Max(S) == CHOOSE x \in S : \A y \in S : y <= x

\* MhrRegistration.adjust_group_interest: the largest denominator among the
\* ACTIVE tenants-in-common groups becomes the denominator of every group with
\* an interest that is new, or modified and ACTIVE; its numerator becomes
\* common_denominator / den * num, a float division.
adjust_group_interest(owner_groups, new) ==
    LET tc == {i \in DOMAIN owner_groups : owner_groups[i].tenancy_type = COMMON
                                           /\ owner_groups[i].status_type = ACTIVE}
        common_denominator == Max({owner_groups[i].interest_denominator : i \in tc})
    IN  IF tc = {} THEN owner_groups
        ELSE [i \in DOMAIN owner_groups |->
                LET group == owner_groups[i]
                    num == group.interest_numerator
                    den == group.interest_denominator
                IN  IF /\ new \/ (group.modified /\ group.status_type = ACTIVE)
                       /\ num > 0 /\ den > 0 /\ den # common_denominator
                    THEN [group EXCEPT
                            !.interest_denominator = common_denominator,
                            !.interest_numerator = (common_denominator * num) \div den,
                            !.interest_numerator_remainder = (common_denominator * num) % den]
                    ELSE group]

\* The party type create_new_groups gives an owner: inferred from the names
\* without a partyType, and an OWNER_BUS with an individualName or an OWNER_IND
\* with an organizationName turned into the other type.
new_owner_party_type(owner_json) ==
    LET party_type == owner_json.partyType
    IN  IF party_type = "" /\ owner_json.individualName THEN OWNER_IND
        ELSE IF party_type = OWNER_BUS /\ owner_json.individualName THEN OWNER_IND
        ELSE IF party_type = OWNER_IND /\ owner_json.organizationName THEN OWNER_BUS
        ELSE IF party_type = "" THEN OWNER_BUS
        ELSE party_type

\* The party type add_new_groups gives an owner: inferred from the names
\* without a partyType only.
added_owner_party_type(owner_json) ==
    LET party_type == owner_json.partyType
    IN  IF party_type = "" /\ owner_json.individualName THEN OWNER_IND
        ELSE IF party_type = "" THEN OWNER_BUS
        ELSE party_type

\* create_new_groups followed by the interest adjustment of the new groups.
create_new_groups_adjusted(self_id, json_data) ==
    adjust_group_interest(
        [sequence \in 1..Len(json_data.ownerGroups) |->
            [MhrOwnerGroup_create_from_json(json_data.ownerGroups[sequence], self_id) EXCEPT
                !.group_id = sequence, !.group_sequence_number = sequence]], TRUE)

\* create_new_groups that keeps the group id the payload declared.
create_new_groups_payload_id(self_id, json_data) ==
    [sequence \in 1..Len(json_data.ownerGroups) |->
        [MhrOwnerGroup_create_from_json(json_data.ownerGroups[sequence], self_id) EXCEPT
            !.group_id = json_data.ownerGroups[sequence].groupId,
            !.group_sequence_number = json_data.ownerGroups[sequence].groupId]]

\* MhrRegistration.create_new_groups: one group per payload entry, in payload
\* order, numbered by position; the interest adjustment is not applied.
create_new_groups(self_id, json_data) ==
    [sequence \in 1..Len(json_data.ownerGroups) |->
        LET group_json == json_data.ownerGroups[sequence]
        IN  [MhrOwnerGroup_create_from_json(group_json, self_id) EXCEPT
                !.group_id = sequence, !.group_sequence_number = sequence,
                !.owners = [o \in DOMAIN group_json.owners |->
                              MhrParty_create_from_json(
                                  group_json.owners[o],
                                  new_owner_party_type(group_json.owners[o]), self_id)]]]

\* MhrOwnerGroup.create_from_change_json: a new ACTIVE group of the change
\* registration with the group id it is given and the tenancy type and
\* interest of the payload entry.
MhrOwnerGroup_create_from_change_json(new_json, registration_id, change_registration_id, group_id) ==
    [MhrOwnerGroup(group_id, registration_id) EXCEPT
        !.change_registration_id = change_registration_id,
        !.tenancy_type = new_json.type,
        !.interest_numerator = new_json.interestNumerator,
        !.interest_denominator = new_json.interestDenominator]

\* add_new_groups that takes the group id from the payload entry.
add_new_groups_payload_id(self_id, json_data, existing_count) ==
    [k \in 1..Len(json_data.addOwnerGroups) |->
        MhrOwnerGroup_create_from_change_json(json_data.addOwnerGroups[k], self_id, self_id,
                                              json_data.addOwnerGroups[k].groupId)]

\* MhrRegistration.add_new_groups: group ids continue from existing_count; the
\* payload's groupId is the display position of a group with an interest.
add_new_groups(self_id, json_data, existing_count) ==
    [k \in 1..Len(json_data.addOwnerGroups) |->
        LET new_json == json_data.addOwnerGroups[k]
            new_group == MhrOwnerGroup_create_from_change_json(new_json, self_id, self_id,
                                                               existing_count + k)
        IN  [new_group EXCEPT
                !.group_sequence_number =
                    IF new_group.interest_numerator = 0 THEN 1 ELSE new_json.groupId,
                !.owners = [o \in DOMAIN new_json.owners |->
                              MhrParty_create_from_json(
                                  new_json.owners[o],
                                  added_owner_party_type(new_json.owners[o]), self_id)]]]

\* reg_utils.is_transfer_due_to_death: the transfer types of the death
\* transfer tests (TRAND, TRANS_ADMIN, TRANS_AFFIDAVIT, TRANS_WILL).
is_transfer_due_to_death(reg_type) ==
    reg_type \in {TRAND, "TRANS_ADMIN", TRANS_AFFIDAVIT, "TRANS_WILL"}

\* remove_group that stamps the death metadata whatever the registration type.
remove_group_stamps_always(delete_group_id, existing, new_reg_id, reg_type) ==
    IF existing.group_id = delete_group_id
    THEN [existing EXCEPT
            !.status_type = PREVIOUS,
            !.change_registration_id = new_reg_id,
            !.modified = TRUE,
            !.owners = [o \in DOMAIN existing.owners |->
                          [existing.owners[o] EXCEPT
                             !.status_type = PREVIOUS,
                             !.change_registration_id = new_reg_id,
                             !.deceased = TRUE]]]
    ELSE existing

\* remove_group that leaves the owners of the group as they were.
remove_group_keeps_owners(delete_group_id, existing, new_reg_id, reg_type) ==
    IF existing.group_id = delete_group_id
    THEN [existing EXCEPT !.status_type = PREVIOUS,
                          !.change_registration_id = new_reg_id,
                          !.modified = TRUE]
    ELSE existing

\* MhrRegistration.remove_group: conditionally set status on owner group and owners.
remove_group(delete_group_id, existing, new_reg_id, reg_type) ==
    IF existing.group_id = delete_group_id
    THEN [existing EXCEPT
            !.status_type = PREVIOUS,
            !.change_registration_id = new_reg_id,
            !.modified = TRUE,
            !.owners = [o \in DOMAIN existing.owners |->
                          [existing.owners[o] EXCEPT
                             !.status_type = PREVIOUS,
                             !.change_registration_id = new_reg_id,
                             !.deceased = existing.owners[o].deceased
                                          \/ is_transfer_due_to_death(reg_type)]]]
    ELSE existing

\* MhrRegistration.remove_groups iterates json_data.get("deleteOwnerGroups"):
\* without the key the loop is over None and raises TypeError.
remove_groups_raises(json_data) == ~json_data.hasDeleteOwnerGroups

\* remove_groups that supersedes every owner group once the payload deletes one.
remove_groups_of_all(owner_groups, json_data, new_reg_id) ==
    [i \in DOMAIN owner_groups |->
        IF json_data.deleteOwnerGroups # {}
        THEN remove_group(owner_groups[i].group_id, owner_groups[i], new_reg_id,
                          json_data.registrationType)
        ELSE owner_groups[i]]

\* The inner loops of remove_groups over one registration's owner groups,
\* for every entry of deleteOwnerGroups.
remove_groups_of(owner_groups, json_data, new_reg_id) ==
    [i \in DOMAIN owner_groups |->
        IF owner_groups[i].group_id \in json_data.deleteOwnerGroups
        THEN remove_group(owner_groups[i].group_id, owner_groups[i], new_reg_id,
                          json_data.registrationType)
        ELSE owner_groups[i]]

----------------------------------------------------------------------------
(* Notes *)

\* model_utils.compute_permit_expiry: now plus the fixed permit duration.
compute_permit_expiry(now) == now + 1

HasNote(reg) == reg.notes # <<>>

\* MhrRegistration.set_caution: the loop over change_registrations, from
\* position i with the flag found so far; an expiry-bearing match ends it.
RECURSIVE caution_scan(_, _, _, _)
caution_scan(regs, i, has_caution, now) ==
    IF i > Len(regs) THEN has_caution
    ELSE IF /\ HasNote(regs[i])
            /\ regs[i].notes[1].document_type \in CautionTypes
            /\ regs[i].notes[1].status_type = ACTIVE
         THEN IF regs[i].notes[1].expiry_date = 0 /\ regs[i].notes[1].document_type = "CAUC"
              THEN caution_scan(regs, i + 1, TRUE, now)
              ELSE IF regs[i].notes[1].expiry_date # 0
                   THEN regs[i].notes[1].expiry_date > now
                   ELSE caution_scan(regs, i + 1, has_caution, now)
         ELSE caution_scan(regs, i + 1, has_caution, now)

\* The positions of the ACTIVE caution notes of regs that carry an expiry date.
ExpiringCautions(regs) ==
    {i \in DOMAIN regs :
        /\ HasNote(regs[i])
        /\ regs[i].notes[1].document_type \in CautionTypes
        /\ regs[i].notes[1].status_type = ACTIVE
        /\ regs[i].notes[1].expiry_date # 0}

\* set_caution that lets the latest expiry-bearing caution decide.
set_caution_most_recent(self, now) ==
    LET matches == ExpiringCautions(self.change_registrations)
    IN  IF matches = {} THEN caution_scan(self.change_registrations, 1, FALSE, now)
        ELSE LET last == CHOOSE i \in matches : \A j \in matches : j <= i
             IN  self.change_registrations[last].notes[1].expiry_date > now

\* MhrRegistration.set_caution, read at time now.
set_caution(self, now) ==
    IF self.change_registrations = <<>> THEN FALSE
    ELSE caution_scan(self.change_registrations, 1, FALSE, now)

\* The positions of the ACTIVE permit notes of regs that carry an expiry date.
ExpiringPermits(regs) ==
    {i \in DOMAIN regs :
        /\ HasNote(regs[i])
        /\ regs[i].notes[1].status_type = ACTIVE
        /\ regs[i].notes[1].expiry_date # 0
        /\ regs[i].notes[1].document_type \in PermitTypes}

\* The amendment loop ending at its first match.
amendment_expiry_first(regs, i, expiry_date) ==
    LET matches == {j \in ExpiringPermits(regs) : j >= i}
    IN  IF matches = {} THEN expiry_date
        ELSE regs[CHOOSE j \in matches : \A k \in matches : j <= k].notes[1].expiry_date

\* create_permit_from_json, "Amendment use existing expiry timestamp": the loop
\* over base_reg.change_registrations, every match overwriting note.expiry_date.
RECURSIVE amendment_expiry(_, _, _)
amendment_expiry(regs, i, expiry_date) ==
    IF i > Len(regs) THEN expiry_date
    ELSE IF /\ HasNote(regs[i])
            /\ regs[i].notes[1].status_type = ACTIVE
            /\ regs[i].notes[1].expiry_date # 0
            /\ regs[i].notes[1].document_type \in PermitTypes
         THEN amendment_expiry(regs, i + 1, regs[i].notes[1].expiry_date)
         ELSE amendment_expiry(regs, i + 1, expiry_date)

----------------------------------------------------------------------------
(* Transition builders: MhrRegistration.create_*_from_json *)

\* MhrNote.create_from_json: the note of the registration's document, with the
\* payload's document type (else the document's) and expiry.
MhrNote_create_from_json(json_data, document_type, change_registration_id) ==
    MhrNote(IF json_data.noteDocumentType # "" THEN json_data.noteDocumentType
            ELSE document_type,
            json_data.expiryDateTime, change_registration_id)

\* MhrRegistration.get_sections: the sections of the payload's description.
get_sections(json_data, registration_id) ==
    IF json_data.hasDescription THEN <<MhrSection(registration_id)>> ELSE <<>>

create_new_from_json(json_data, id, now) ==
    [id |-> id, mhr_number |-> MHR_NUMBER,
     registration_type |-> MHREG, registration_ts |-> now,
     status_type |-> ACTIVE, document_type |-> REG_TO_DOC_TYPE(MHREG),
     owner_groups |-> create_new_groups(id, json_data), notes |-> <<>>,
     locations |-> <<MhrLocation(id)>>,
     descriptions |-> <<MhrDescription(id)>>,
     sections |-> get_sections(json_data, id)]

\* create_new_from_json raises on a payload without ownerGroups
\* (create_new_groups iterates json_data.get("ownerGroups") = None) or without
\* location (json_data["location"]).
create_new_from_json_raises(json_data) ==
    ~json_data.hasOwnerGroups \/ ~json_data.hasLocation

\* The registration object create_new_from_json has constructed when it
\* raises: the generated id is assigned, the owner groups exist when the
\* payload has them, the document does not exist yet.
create_new_from_json_partial(json_data, id, now) ==
    [id |-> id, mhr_number |-> MHR_NUMBER,
     registration_type |-> MHREG, registration_ts |-> now,
     status_type |-> ACTIVE, document_type |-> "",
     owner_groups |-> IF json_data.hasOwnerGroups THEN create_new_groups(id, json_data)
                      ELSE <<>>,
     notes |-> <<>>, locations |-> <<>>, descriptions |-> <<>>, sections |-> <<>>]

\* create_change_from_json raises KeyError on REG_TO_DOC_TYPE[registration_type]
\* for a registration type that is no key of the table.
create_change_from_json_raises(json_data) ==
    json_data.registrationType \notin REG_TO_DOC_KEYS

\* The registration object create_change_from_json has constructed when the
\* table lookup raises: the generated id, the type, the timestamp and the
\* status are assigned, the document does not exist yet.
create_change_from_json_partial(base, json_data, id, now) ==
    [id |-> id, mhr_number |-> base.mhr_number,
     registration_type |-> json_data.registrationType,
     registration_ts |-> now, status_type |-> ACTIVE, document_type |-> "",
     owner_groups |-> <<>>, notes |-> <<>>,
     locations |-> <<>>, descriptions |-> <<>>, sections |-> <<>>]

\* create_change_from_json that takes the document type from the table alone.
create_change_from_json_table(base, json_data, id, now) ==
    [id |-> id, mhr_number |-> base.mhr_number,
     registration_type |-> json_data.registrationType,
     registration_ts |-> now, status_type |-> ACTIVE,
     document_type |-> REG_TO_DOC_TYPE(json_data.registrationType),
     owner_groups |-> <<>>, notes |-> <<>>,
     locations |-> <<>>, descriptions |-> <<>>, sections |-> <<>>]

create_change_from_json(base, json_data, id, now) ==
    [id |-> id, mhr_number |-> base.mhr_number,
     registration_type |-> json_data.registrationType,
     registration_ts |-> now, status_type |-> ACTIVE,
     document_type |->
        IF json_data.registrationType = REG_STAFF_ADMIN /\ json_data.documentType # ""
        THEN json_data.documentType
        ELSE IF json_data.registrationType = REG_NOTE /\ json_data.noteDocumentType # ""
        THEN json_data.noteDocumentType
        ELSE IF json_data.registrationType = TRANS /\ json_data.transferDocumentType # ""
        THEN json_data.transferDocumentType
        ELSE REG_TO_DOC_TYPE(json_data.registrationType),
     owner_groups |-> <<>>, notes |-> <<>>,
     locations |-> <<>>, descriptions |-> <<>>, sections |-> <<>>]

create_transfer_from_json(current_reg, json_data, id, now) ==
    LET typed == IF json_data.registrationType = ""
                 THEN [json_data EXCEPT !.registrationType = TRANS]
                 ELSE json_data
        registration == create_change_from_json(current_reg.reg, typed, id, now)
    IN  IF current_reg.reg.owner_groups # <<>>
        THEN [registration EXCEPT !.owner_groups =
                 add_new_groups(id, json_data, get_owner_group_count(current_reg))]
        ELSE registration

create_exemption_from_json(current_reg, json_data, id, now) ==
    LET typed == [json_data EXCEPT !.registrationType =
                     IF json_data.nonResidential THEN EXEMPTION_NON_RES
                     ELSE EXEMPTION_RES]
        registration == create_change_from_json(current_reg.reg, typed, id, now)
    IN  [registration EXCEPT !.notes =
            <<MhrNote_create_from_json(json_data, registration.document_type, id)>>]

\* MhrLocation.create_from_json(json_data.get("newLocation"), registration.id)
MhrLocation_create_from_json(json_data, registration_id) == MhrLocation(registration_id)

\* change_utils.setup_permit_extension_location: an extension keeps the
\* existing location of the home, the new registration gets none.
setup_permit_extension_location(current_reg, registration, json_data) == registration

\* change_utils.setup_permit_extension_location on base_reg, the first argument
\* of the call: the tax information of the newLocation payload updates the
\* existing location record of the home.
setup_permit_extension_location_existing(reg, json_data) ==
    [reg EXCEPT !.locations =
        [i \in DOMAIN reg.locations |->
            IF reg.locations[i].status_type = ACTIVE /\ json_data.hasNewLocation
            THEN [reg.locations[i] EXCEPT !.tax_certification = TRUE]
            ELSE reg.locations[i]]]

\* create_permit_from_json that lets the extension flag win over the amendment
\* flag and gives an amendment the expiry date of an existing permit only.
create_permit_from_json_extension_wins(current_reg, json_data, id, now) ==
    LET typed == [json_data EXCEPT !.registrationType = PERMIT]
        registration == create_change_from_json(current_reg.reg, typed, id, now)
        document_type == IF json_data.extension THEN "REG_103E"
                         ELSE IF json_data.amendment THEN "AMEND_PERMIT"
                         ELSE registration.document_type
        expiry_date == IF json_data.amendment
                       THEN amendment_expiry(current_reg.change_registrations, 1, 0)
                       ELSE compute_permit_expiry(now)
    IN  [registration EXCEPT
            !.registration_type = IF json_data.extension THEN PERMIT_EXTENSION
                                  ELSE IF json_data.amendment THEN AMENDMENT
                                  ELSE @,
            !.document_type = document_type,
            !.locations = IF document_type = "REG_103E" THEN @
                          ELSE Append(@, MhrLocation_create_from_json(json_data, id)),
            !.notes = <<MhrNote(document_type, expiry_date, id)>>]

\* create_permit_from_json that builds a new location for an extension too.
create_permit_from_json_new_location(current_reg, json_data, id, now) ==
    LET typed == [json_data EXCEPT !.registrationType = PERMIT]
        registration == create_change_from_json(current_reg.reg, typed, id, now)
        document_type == IF json_data.amendment THEN "AMEND_PERMIT"
                         ELSE IF json_data.extension THEN "REG_103E"
                         ELSE registration.document_type
    IN  [registration EXCEPT
            !.registration_type = IF json_data.amendment THEN AMENDMENT
                                  ELSE IF json_data.extension THEN PERMIT_EXTENSION
                                  ELSE @,
            !.document_type = document_type,
            !.locations = Append(@, MhrLocation_create_from_json(json_data, id)),
            !.notes = <<MhrNote(document_type, compute_permit_expiry(now), id)>>]

create_permit_from_json(current_reg, json_data, id, now) ==
    LET typed == [json_data EXCEPT !.registrationType = PERMIT]
        registration == create_change_from_json(current_reg.reg, typed, id, now)
        document_type == IF json_data.amendment THEN "AMEND_PERMIT"
                         ELSE IF json_data.extension THEN "REG_103E"
                         ELSE registration.document_type
        registration_type == IF json_data.amendment THEN AMENDMENT
                             ELSE IF json_data.extension THEN PERMIT_EXTENSION
                             ELSE registration.registration_type
        expiry_date == IF json_data.amendment
                       THEN amendment_expiry(current_reg.change_registrations, 1,
                                             compute_permit_expiry(now))
                       ELSE compute_permit_expiry(now)
    IN  [registration EXCEPT
            !.registration_type = registration_type,
            !.document_type = document_type,
            !.locations =
                IF document_type = "REG_103E"
                THEN setup_permit_extension_location(current_reg, registration, json_data).locations
                ELSE Append(@, MhrLocation_create_from_json(json_data, id)),
            !.notes = <<MhrNote(document_type, expiry_date, id)>>]

\* Document types of an administrative registration that may change owners,
\* the location and the description.
AdminOwnerDocTypes == {"REGC_CLIENT", "REGC_STAFF", "PUBA", "EXRE"}
AdminLocationDocTypes == {"REGC_CLIENT", "EXRE", "REGC_STAFF", "STAT", "PUBA", "CANCEL_PERMIT"}
AdminDescriptionDocTypes == {"REGC_CLIENT", "EXRE", "REGC_STAFF", "PUBA"}

\* create_admin_from_json that attaches what the payload has whatever the
\* document type.
create_admin_from_json_no_gate(current_reg, json_data, id, now) ==
    LET typed == [json_data EXCEPT !.registrationType = REG_STAFF_ADMIN]
        registration == create_change_from_json(current_reg.reg, typed, id, now)
    IN  [registration EXCEPT
            !.notes = IF json_data.noteDocumentType # ""
                      THEN <<MhrNote_create_from_json(json_data, registration.document_type, id)>>
                      ELSE <<>>,
            !.locations = IF json_data.hasLocation THEN <<MhrLocation(id)>> ELSE <<>>,
            !.descriptions = IF json_data.hasDescription THEN <<MhrDescription(id)>> ELSE <<>>,
            !.sections = get_sections(json_data, id),
            !.owner_groups = IF json_data.addOwnerGroups # <<>> /\ json_data.deleteOwnerGroups # {}
                             THEN add_new_groups(id, json_data, get_owner_group_count(current_reg))
                             ELSE <<>>]

create_admin_from_json(current_reg, json_data, id, now) ==
    LET typed == [json_data EXCEPT !.registrationType = REG_STAFF_ADMIN]
        registration == create_change_from_json(current_reg.reg, typed, id, now)
        noted == IF json_data.noteDocumentType # ""
                 THEN [registration EXCEPT !.notes =
                        <<MhrNote_create_from_json(json_data, registration.document_type, id)>>]
                 ELSE registration
        located == IF /\ json_data.hasLocation
                      /\ registration.document_type \in AdminLocationDocTypes
                   THEN [noted EXCEPT !.locations = Append(@, MhrLocation(id))]
                   ELSE noted
        described == IF /\ json_data.hasDescription
                        /\ registration.document_type \in AdminDescriptionDocTypes
                     THEN [located EXCEPT !.descriptions = <<MhrDescription(id)>>,
                                          !.sections = get_sections(json_data, id)]
                     ELSE located
    IN  IF /\ json_data.addOwnerGroups # <<>>
           /\ json_data.deleteOwnerGroups # {}
           /\ registration.document_type \in AdminOwnerDocTypes
        THEN [described EXCEPT !.owner_groups =
                 add_new_groups(id, json_data, get_owner_group_count(current_reg))]
        ELSE described

\* create_note_from_json without the delegation of a cancellation note.
create_note_from_json_no_admin(current_reg, json_data, id, now) ==
    LET typed == [json_data EXCEPT !.registrationType = REG_NOTE]
        registration == create_change_from_json(current_reg.reg, typed, id, now)
    IN  [registration EXCEPT !.notes =
            <<MhrNote_create_from_json(json_data, registration.document_type, id)>>]

create_note_from_json(current_reg, json_data, id, now) ==
    IF json_data.noteDocumentType = "NCAN"
    THEN create_admin_from_json(current_reg,
                                [json_data EXCEPT !.documentType = json_data.noteDocumentType,
                                                  !.updateDocumentId = json_data.cancelDocumentId],
                                id, now)
    ELSE LET typed == [json_data EXCEPT !.registrationType = REG_NOTE]
             registration == create_change_from_json(current_reg.reg, typed, id, now)
         IN  [registration EXCEPT !.notes =
                <<MhrNote_create_from_json(json_data, registration.document_type, id)>>]

----------------------------------------------------------------------------
(* Prior chain updates: the save_* steps that follow registration.save() *)

\* Ids of the registrations the caller loaded with the aggregate.
LoadedIds(current_reg) ==
    {current_reg.change_registrations[i].id : i \in DOMAIN current_reg.change_registrations}

\* MhrRegistration.remove_groups on the loaded aggregate, as it changes one row.
remove_groups(reg, json_data, new_reg_id) ==
    [reg EXCEPT !.owner_groups = remove_groups_of(reg.owner_groups, json_data, new_reg_id)]

\* save_exemption closing out a permit note without recording the exemption.
cancel_permit_note_unstamped(reg, new_reg_id) ==
    IF /\ HasNote(reg)
       /\ reg.notes[1].document_type \in PermitTypes
       /\ reg.notes[1].status_type = ACTIVE
    THEN [reg EXCEPT !.notes = <<[reg.notes[1] EXCEPT !.status_type = CANCELLED]>>]
    ELSE reg

\* save_exemption flipping the status of every permit note it meets.
cancel_permit_note_reinstates(reg, new_reg_id) ==
    IF HasNote(reg) /\ reg.notes[1].document_type \in PermitTypes
    THEN [reg EXCEPT !.notes = <<[reg.notes[1] EXCEPT
                                    !.status_type =
                                        IF reg.notes[1].status_type = ACTIVE
                                        THEN CANCELLED ELSE ACTIVE,
                                    !.change_registration_id = new_reg_id]>>]
    ELSE reg

\* MhrRegistration.save_exemption, as it changes one loaded change registration:
\* an active transport permit note is closed out.
cancel_permit_note(reg, new_reg_id) ==
    IF /\ HasNote(reg)
       /\ reg.notes[1].document_type \in PermitTypes
       /\ reg.notes[1].status_type = ACTIVE
    THEN [reg EXCEPT !.notes = <<[reg.notes[1] EXCEPT
                                    !.status_type = CANCELLED,
                                    !.change_registration_id = new_reg_id]>>]
    ELSE reg

----------------------------------------------------------------------------
(* Requests: resources/registration_utils.pay_and_save_* *)

GroupIds == 1..MaxGroupId
DeleteInputs == {d \in SUBSET GroupIds : Cardinality(d) <= 1}
ExpiryInputs == 0..(MaxTime + 1)

\* The requests a caller may send: <<transaction kind, payload>>.
RegistrationInputs ==
    {<<"registration", Json(MHREG, [k \in 1..n |-> GroupJson(k, IF n = 1 THEN SOLE ELSE JOINT, 0, 0)],
                             0, FALSE, {}, FALSE, FALSE, FALSE, "", 0)>> :
        n \in RootGroupCounts}

TransferInputs ==
    {<<"transfer", Json(TRANS, <<>>, a, TRUE, d, FALSE, FALSE, FALSE, "", 0)>> :
        a \in AddCounts, d \in DeleteInputs}
    \cup {<<"transfer", Json(TRANS, <<>>, a, FALSE, {}, FALSE, FALSE, FALSE, "", 0)>> :
            a \in AddCounts}

DeathTransferInputs ==
    {<<"transfer", Json(TRAND, <<>>, a, TRUE, d, FALSE, FALSE, FALSE, "", 0)>> :
        a \in AddCounts, d \in DeleteInputs}

ExemptionInputs ==
    {<<"exemption", Json("", <<>>, 0, FALSE, {}, nr, FALSE, FALSE, "", 0)>> : nr \in BOOLEAN}

PermitInputs ==
    {<<"permit", Json(PERMIT, <<>>, 0, FALSE, {}, FALSE, am, ex, "", 0)>> :
        am \in BOOLEAN, ex \in BOOLEAN}

NoteInputs ==
    {<<"note", Json(REG_NOTE, <<>>, 0, FALSE, {}, FALSE, FALSE, FALSE, dt, e)>> :
        dt \in CautionTypes, e \in ExpiryInputs}

NoAggregate == [reg |-> NoReg, change_registrations |-> <<>>]

\* The object a caller reads views from: the base registration with its
\* change_registrations and the flags current_view, staff and report_view.
NoView ==
    [reg |-> NoReg, change_registrations |-> <<>>,
     current_view |-> FALSE, staff |-> FALSE, report_view |-> FALSE]

\* The flags the caller assigned to the object (class defaults: False).
NoFlags == [current_view |-> FALSE, staff |-> FALSE]

\* One operation on the object: the property read (or "set" for the caller's
\* assignment of the flags), the clock reading, the object before and after,
\* and the json returned.
NoRead == [op |-> "", ts |-> 0, before |-> NoView, after |-> NoView, out |-> [status |-> ""]]

IdleFlow ==
    [pc |-> "idle", kind |-> "", json_data |-> NoJson, account_id |-> NO_ACCOUNT,
     current_reg |-> NoAggregate, registration_id |-> 0, invoice_id |-> 0,
     cancel_payment |-> "none", cancel_invoice_id |-> 0, registration |-> NoReg,
     self |-> NoView, chosen |-> NoFlags, prev |-> NoRead, last |-> NoRead,
     new |-> FALSE, key |-> "", staff |-> FALSE, draft |-> NoJson, error |-> "",
     routines |-> <<>>, response |-> [status_code |-> "", body |-> "", get_pdf |-> "none"]]

\* order_by(MhrRegistration.registration_ts): the rows in ascending
\* registration_ts order, rows of one timestamp in the order they were inserted.
RECURSIVE order_by_registration_ts(_)
order_by_registration_ts(regs) ==
    IF regs = <<>> THEN <<>>
    ELSE LET first == CHOOSE i \in DOMAIN regs :
                        \A j \in DOMAIN regs :
                            \/ regs[i].registration_ts < regs[j].registration_ts
                            \/ regs[i].registration_ts = regs[j].registration_ts /\ i <= j
         IN  <<regs[first]>> \o
             order_by_registration_ts(
                [k \in 1..(Len(regs) - 1) |-> IF k < first THEN regs[k] ELSE regs[k + 1]])

\* MhrRegistration.find_all_by_mhr_number: the base registration with its
\* change registrations in registration_ts order.
find_all_by_mhr_number ==
    [reg |-> base_reg,
     change_registrations |-> order_by_registration_ts(change_registrations)]

\* Requests that were accepted and have not paid yet.
Unpaid == Cardinality({q \in Procs : flow[q].pc = "request"})

\* The endpoint loads the aggregate and calls pay_and_save_<kind> with one of
\* the requests in inputs; a new registration is the first request only.
Request(p, inputs, max_flows) ==
    /\ flow[p].pc = "idle"
    /\ pay_seq + Unpaid < max_flows
    /\ \E input \in inputs, account \in Accounts :
        /\ (input[1] = "registration") <=> (base_reg.id = 0)
        /\ input[1] = "registration" => \A q \in Procs : flow[q].kind # "registration"
        /\ flow' = [flow EXCEPT ![p] =
                        [IdleFlow EXCEPT !.pc = "request", !.kind = input[1],
                                         !.json_data = input[2],
                                         !.account_id = account,
                                         !.current_reg = find_all_by_mhr_number]]
    /\ UNCHANGED <<base_reg, change_registrations, reg_seq, pay_seq, now_ts>>

\* The except clause without the refund.
handle_exception_no_refund(fl, invoice_id, cancel_ok) ==
    [fl EXCEPT !.pc = "raised", !.invoice_id = invoice_id]

\* The except clause of pay_and_save_*: refund when the account is known, then
\* raise DatabaseException; a failing cancel_payment is logged only.
handle_exception(fl, invoice_id, cancel_ok) ==
    [fl EXCEPT !.pc = "raised",
               !.invoice_id = invoice_id,
               !.cancel_payment =
                    IF fl.account_id # NO_ACCOUNT /\ invoice_id # 0
                    THEN (IF cancel_ok THEN "cancelled" ELSE "cancel_failed")
                    ELSE "none",
               !.cancel_invoice_id =
                    IF fl.account_id # NO_ACCOUNT /\ invoice_id # 0 THEN invoice_id ELSE 0]

\* pay(): the payment service answers with a credit card payment, and the
\* request is kept as a draft instead of a registration; pay_and_save_note
\* pays with pay_staff and has no such branch.
PayCreditCard(p) ==
    /\ flow[p].pc = "request"
    /\ flow[p].kind # "note"
    /\ pay_seq' = pay_seq + 1
    /\ flow' = [flow EXCEPT ![p].pc = "cc_draft", ![p].invoice_id = pay_seq + 1]
    /\ UNCHANGED <<base_reg, change_registrations, reg_seq, now_ts>>

\* pay(), then the builder raises before anything is saved.
BuildFails(p) ==
    /\ flow[p].pc = "request"
    /\ pay_seq' = pay_seq + 1
    /\ \E cancel_ok \in BOOLEAN :
        flow' = [flow EXCEPT ![p] = handle_exception(flow[p], pay_seq + 1, cancel_ok)]
    /\ UNCHANGED <<base_reg, change_registrations, reg_seq, now_ts>>

\* The builder of the flow's kind finds the document type of its registration
\* type in REG_TO_DOC_TYPE; a transfer keeps the payload's registrationType.
BuildOk(fl) ==
    /\ fl.kind = "transfer" =>
        (fl.json_data.registrationType = ""
         \/ fl.json_data.registrationType \in REG_TO_DOC_KEYS)
    /\ fl.kind = "registration" => ~create_new_from_json_raises(fl.json_data)

\* The registration the builder of the flow's kind returns.
Build(fl, id, now) ==
    CASE fl.kind = "registration" -> create_new_from_json(fl.json_data, id, now)
      [] fl.kind = "transfer" -> create_transfer_from_json(fl.current_reg, fl.json_data, id, now)
      [] fl.kind = "exemption" -> create_exemption_from_json(fl.current_reg, fl.json_data, id, now)
      [] fl.kind = "permit" -> create_permit_from_json(fl.current_reg, fl.json_data, id, now)
      [] fl.kind = "note" -> create_note_from_json(fl.current_reg, fl.json_data, id, now)
      [] fl.kind = "admin" -> create_admin_from_json(fl.current_reg, fl.json_data, id, now)

\* Whether create_permit_from_json takes the REG_103E branch for the request.
is_permit_extension(fl) ==
    fl.kind = "permit" /\ fl.json_data.extension /\ ~fl.json_data.amendment

\* The base registration object after the builder of the flow's kind ran: only
\* the permit builder hands base_reg on, to setup_permit_extension_location.
BuiltBase(fl, reg) ==
    IF is_permit_extension(fl)
    THEN setup_permit_extension_location_existing(reg, fl.json_data)
    ELSE reg

\* pay(), the builder, then registration.save() fails: the generated id is spent.
SaveFails(p) ==
    /\ flow[p].pc = "request"
    /\ pay_seq' = pay_seq + 1
    /\ reg_seq' = reg_seq + 1
    /\ \E cancel_ok \in BOOLEAN :
        flow' = [flow EXCEPT ![p] = handle_exception(flow[p], pay_seq + 1, cancel_ok)]
    /\ UNCHANGED <<base_reg, change_registrations, now_ts>>

\* pay() and the builder, which reads the clock (model_utils.now_ts()) for
\* registration_ts: a later reading than any before it. Nothing is saved yet.
BuildRegistration(p) ==
    /\ flow[p].pc = "request"
    /\ BuildOk(flow[p])
    /\ pay_seq' = pay_seq + 1
    /\ reg_seq' = reg_seq + 1
    /\ now_ts' = now_ts + 1
    /\ flow' = [flow EXCEPT ![p].pc = "built",
                            ![p].draft = IF flow[p].kind = "registration"
                                         THEN flow[p].json_data ELSE @,
                            ![p].registration = Build(flow[p], reg_seq + 1, now_ts + 1),
                            ![p].registration_id = reg_seq + 1,
                            ![p].invoice_id = pay_seq + 1]
    /\ UNCHANGED <<base_reg, change_registrations>>

\* pay() and create_new_from_json: the registration object is constructed, the
\* generated id assigned and the draft given the payload (draft.draft =
\* json_data) before the owner groups, the location and the document are
\* built; a payload without ownerGroups or location raises there, and the
\* except clause of pay_and_save_registration refunds.
BuildNewRegistration(p) ==
    /\ flow[p].pc = "request"
    /\ flow[p].kind = "registration"
    /\ pay_seq' = pay_seq + 1
    /\ reg_seq' = reg_seq + 1
    /\ LET fl == flow[p]
           id == reg_seq + 1
       IN  IF create_new_from_json_raises(fl.json_data)
           THEN \E cancel_ok \in BOOLEAN :
                    flow' = [flow EXCEPT ![p] =
                                [handle_exception(fl, pay_seq + 1, cancel_ok) EXCEPT
                                    !.registration =
                                        create_new_from_json_partial(fl.json_data, id, now_ts),
                                    !.registration_id = id,
                                    !.draft = fl.json_data,
                                    !.error = IF fl.json_data.hasOwnerGroups
                                              THEN "KeyError" ELSE "TypeError"]]
           ELSE flow' = [flow EXCEPT ![p].pc = "built",
                                     ![p].registration =
                                        create_new_from_json(fl.json_data, id, now_ts),
                                     ![p].registration_id = id,
                                     ![p].invoice_id = pay_seq + 1,
                                     ![p].draft = fl.json_data]
    /\ UNCHANGED <<base_reg, change_registrations, now_ts>>

\* The payload as create_change_from_json receives it from the builder of the
\* flow's kind: create_transfer_from_json sets TRANS without a registrationType,
\* the other builders set the registration type of their kind.
ChangeJson(fl) ==
    [fl.json_data EXCEPT !.registrationType =
        CASE fl.kind = "transfer" -> IF @ = "" THEN TRANS ELSE @
          [] fl.kind = "exemption" -> IF fl.json_data.nonResidential THEN EXEMPTION_NON_RES
                                      ELSE EXEMPTION_RES
          [] fl.kind = "permit" -> PERMIT
          [] fl.kind = "note" -> REG_NOTE
          [] OTHER -> REG_STAFF_ADMIN]

\* pay() and the create_<kind>_from_json builder of a change registration:
\* create_change_from_json finds or creates the draft, takes the generated
\* values, constructs the registration and gives the draft the payload before
\* it looks the document type up; a registration type without a table entry
\* raises KeyError there, and the except clause of pay_and_save_<kind> refunds.
BuildChangeRegistration(p) ==
    /\ flow[p].pc = "request"
    /\ flow[p].kind \in {"transfer", "exemption", "permit"}
    /\ pay_seq' = pay_seq + 1
    /\ reg_seq' = reg_seq + 1
    /\ LET fl == flow[p]
           id == reg_seq + 1
       IN  IF create_change_from_json_raises(ChangeJson(fl))
           THEN \E cancel_ok \in BOOLEAN :
                    flow' = [flow EXCEPT ![p] =
                                [handle_exception(fl, pay_seq + 1, cancel_ok) EXCEPT
                                    !.registration =
                                        create_change_from_json_partial(
                                            fl.current_reg.reg, ChangeJson(fl), id, now_ts),
                                    !.registration_id = id,
                                    !.draft = ChangeJson(fl),
                                    !.error = "KeyError"]]
           ELSE flow' = [flow EXCEPT ![p].pc = "built",
                                     ![p].registration = Build(fl, id, now_ts),
                                     ![p].current_reg.reg = BuiltBase(fl, @),
                                     ![p].registration_id = id,
                                     ![p].invoice_id = pay_seq + 1,
                                     ![p].draft = ChangeJson(fl)]
    /\ UNCHANGED <<base_reg, change_registrations, now_ts>>

\* Whether pay_and_save_<kind> runs a prior chain update after registration.save().
HasPriorUpdate(fl) == fl.kind \in {"transfer", "exemption", "permit", "admin"}

\* pay(), the builder, and registration.save(): db.session.add + commit.
Save(p) ==
    /\ flow[p].pc = "request"
    /\ BuildOk(flow[p])
    /\ pay_seq' = pay_seq + 1
    /\ reg_seq' = reg_seq + 1
    /\ LET registration == Build(flow[p], reg_seq + 1, now_ts)
       IN  /\ IF flow[p].kind = "registration"
              THEN /\ base_reg' = registration
                   /\ UNCHANGED change_registrations
              ELSE /\ change_registrations' = Append(change_registrations, registration)
                   /\ base_reg' = [base_reg EXCEPT !.locations =
                                        BuiltBase(flow[p], base_reg).locations]
           /\ flow' = [flow EXCEPT ![p].pc = IF HasPriorUpdate(flow[p]) THEN "saved"
                                               ELSE "returned",
                                    ![p].current_reg.reg = BuiltBase(flow[p], @),
                                    ![p].draft = IF flow[p].kind = "registration"
                                                 THEN flow[p].json_data ELSE @,
                                    ![p].registration_id = registration.id,
                                    ![p].invoice_id = pay_seq + 1]
    /\ UNCHANGED now_ts

\* registration.save() of the registration built earlier.
SaveBuilt(p) ==
    /\ flow[p].pc = "built"
    /\ IF flow[p].kind = "registration"
       THEN /\ base_reg' = flow[p].registration
            /\ UNCHANGED change_registrations
       ELSE /\ change_registrations' = Append(change_registrations, flow[p].registration)
            /\ base_reg' = [base_reg EXCEPT !.locations =
                                IF is_permit_extension(flow[p])
                                THEN flow[p].current_reg.reg.locations ELSE @]
    /\ flow' = [flow EXCEPT ![p].pc = IF HasPriorUpdate(flow[p]) THEN "saved"
                                        ELSE "returned"]
    /\ UNCHANGED <<reg_seq, pay_seq, now_ts>>

\* The prior chain update of the flow raises (remove_groups iterating an absent
\* deleteOwnerGroups, or the second commit failing): the saved registration stays.
PriorUpdateFails(p) ==
    /\ flow[p].pc = "saved"
    /\ \E cancel_ok \in BOOLEAN :
        flow' = [flow EXCEPT ![p] =
                    handle_exception(flow[p], flow[p].invoice_id, cancel_ok)]
    /\ UNCHANGED <<base_reg, change_registrations, reg_seq, pay_seq, now_ts>>

\* current_reg.save_transfer / save_exemption / change_utils.save_permit on
\* the rows of the loaded aggregate, and the second commit.
PriorUpdate(p) ==
    /\ flow[p].pc = "saved"
    /\ flow[p].kind # "admin"
    /\ flow[p].kind = "transfer" => ~remove_groups_raises(flow[p].json_data)
    /\ LET fl == flow[p]
           loaded == LoadedIds(fl.current_reg)
       IN  /\ base_reg' =
                CASE fl.kind = "transfer" ->
                        remove_groups(base_reg, fl.json_data, fl.registration_id)
                  [] fl.kind = "exemption" -> [base_reg EXCEPT !.status_type = EXEMPT]
                  [] OTHER -> base_reg
           /\ change_registrations' =
                [i \in DOMAIN change_registrations |->
                    IF change_registrations[i].id \notin loaded
                    THEN change_registrations[i]
                    ELSE CASE fl.kind = "transfer" ->
                                remove_groups(change_registrations[i], fl.json_data,
                                              fl.registration_id)
                           [] fl.kind = "exemption" ->
                                cancel_permit_note(change_registrations[i],
                                                   fl.registration_id)
                           [] OTHER -> change_registrations[i]]
    /\ flow' = [flow EXCEPT ![p].pc = "returned"]
    /\ UNCHANGED <<reg_seq, pay_seq, now_ts>>

\* The document types of the branches of pay_and_save_admin.
AdminCancelNoteDocTypes == {"NCAN", "NRED", "EXRE"}
AdminSaveDocTypes == {"EXRE", "REGC_CLIENT", "REGC_STAFF", "STAT", "PUBA"}

\* The if / elif chain of pay_and_save_admin after registration.save(): the
\* prior chain update routines it calls, in the order of the calls.
admin_routines(json_data) ==
    IF json_data.cancelDocumentId # "" /\ json_data.noteDocumentType = "NCAN"
    THEN <<"save_cancel_note">>
    ELSE IF /\ json_data.updateDocumentId # ""
            /\ json_data.documentType \in AdminCancelNoteDocTypes
    THEN <<"save_cancel_note">>
    ELSE IF json_data.documentType \in AdminSaveDocTypes
    THEN <<"save_admin">>
    ELSE IF json_data.documentType = "CANCEL_PERMIT"
    THEN <<"save_permit">>
    ELSE <<>>

\* request_json["note"] of the first condition raises KeyError for a payload
\* with a cancelDocumentId and no note.
admin_routines_raises(json_data) ==
    json_data.cancelDocumentId # "" /\ json_data.noteDocumentType = ""

\* save_cancel_note on one loaded change registration: the ACTIVE note that
\* the document id of the payload names is cancelled by the new registration.
save_cancel_note(reg, json_data, new_reg_id) ==
    IF HasNote(reg) /\ reg.notes[1].status_type = ACTIVE
                   /\ reg.notes[1].document_type \notin PermitTypes
    THEN [reg EXCEPT !.notes = <<[reg.notes[1] EXCEPT
                                    !.status_type = CANCELLED,
                                    !.change_registration_id = new_reg_id]>>]
    ELSE reg

\* save_admin on one loaded registration: the owner groups that the payload
\* deletes are superseded when it adds groups too.
save_admin(reg, json_data, new_reg_id) ==
    IF json_data.addOwnerGroups # <<>> /\ json_data.deleteOwnerGroups # {}
    THEN remove_groups(reg, json_data, new_reg_id)
    ELSE reg

\* change_utils.save_permit for a CANCEL_PERMIT registration, on one loaded
\* change registration: an ACTIVE transport permit note is cancelled.
save_permit(reg, json_data, new_reg_id) == cancel_permit_note(reg, new_reg_id)

\* One routine of pay_and_save_admin applied to a row of the loaded aggregate.
admin_routine(routine, reg, json_data, new_reg_id) ==
    CASE routine = "save_cancel_note" -> save_cancel_note(reg, json_data, new_reg_id)
      [] routine = "save_admin" -> save_admin(reg, json_data, new_reg_id)
      [] routine = "save_permit" -> save_permit(reg, json_data, new_reg_id)

RECURSIVE admin_update(_, _, _, _)
admin_update(routines, reg, json_data, new_reg_id) ==
    IF routines = <<>> THEN reg
    ELSE admin_update(Tail(routines),
                      admin_routine(Head(routines), reg, json_data, new_reg_id),
                      json_data, new_reg_id)

\* pay_and_save_admin after registration.save(): the routines of the if / elif
\* chain on the rows of the loaded aggregate, and their commit.
AdminUpdate(p) ==
    /\ flow[p].pc = "saved"
    /\ flow[p].kind = "admin"
    /\ ~admin_routines_raises(flow[p].json_data)
    /\ LET fl == flow[p]
           loaded == LoadedIds(fl.current_reg)
           routines == admin_routines(fl.json_data)
       IN  /\ base_reg' = admin_update(routines, base_reg, fl.json_data, fl.registration_id)
           /\ change_registrations' =
                [i \in DOMAIN change_registrations |->
                    IF change_registrations[i].id \notin loaded
                    THEN change_registrations[i]
                    ELSE admin_update(routines, change_registrations[i], fl.json_data,
                                      fl.registration_id)]
           /\ flow' = [flow EXCEPT ![p].pc = "returned", ![p].routines = routines]
    /\ UNCHANGED <<reg_seq, pay_seq, now_ts>>

\* The first condition of the chain raises KeyError: the except clause refunds
\* and raises DatabaseException, the registration saved before stays.
AdminUpdateRaises(p) ==
    /\ flow[p].pc = "saved"
    /\ flow[p].kind = "admin"
    /\ admin_routines_raises(flow[p].json_data)
    /\ \E cancel_ok \in BOOLEAN :
        flow' = [flow EXCEPT ![p] =
                    [handle_exception(flow[p], flow[p].invoice_id, cancel_ok) EXCEPT
                        !.error = "KeyError"]]
    /\ UNCHANGED <<base_reg, change_registrations, reg_seq, pay_seq, now_ts>>

\* The endpoint answers and the request ends.
Respond(p) ==
    /\ flow[p].pc \in {"returned", "raised", "cc_draft"}
    /\ flow' = [flow EXCEPT ![p] = IdleFlow]
    /\ UNCHANGED <<base_reg, change_registrations, reg_seq, pay_seq, now_ts>>

Tick ==
    /\ now_ts < MaxTime
    /\ now_ts' = now_ts + 1
    /\ UNCHANGED <<base_reg, change_registrations, reg_seq, pay_seq, flow>>

----------------------------------------------------------------------------
(* Views *)

\* requests served before and between the reads of the views
MaxViewFlows == 3
\* latest clock reading while the views are read
MaxViewTime == 1

\* Note document types that freeze the home while active.
FreezingNoteTypes == {"TAXN", "NCON", "REST"}

\* reg_json_utils.set_group_json: with current the ACTIVE owner groups of the
\* base registration and its change registrations, otherwise the owner groups
\* of the registration itself; each as <<registration_id, group_id>>.
set_group_json(self, current) ==
    LET regs == IF current THEN <<self.reg>> \o self.change_registrations
                ELSE <<self.reg>>
    IN  UNION {{<<regs[i].id, regs[i].owner_groups[k].group_id>> :
                    k \in {k \in DOMAIN regs[i].owner_groups :
                            current => regs[i].owner_groups[k].status_type = ACTIVE}} :
               i \in DOMAIN regs}

RECURSIVE notes_of(_, _)
notes_of(regs, staff) ==
    IF regs = <<>> THEN <<>>
    ELSE (IF HasNote(Head(regs)) /\ Head(regs).notes[1].document_type \notin PermitTypes
          THEN <<[documentType |-> Head(regs).notes[1].document_type,
                  status |-> Head(regs).notes[1].status_type,
                  documentId |-> IF staff THEN Head(regs).id ELSE 0]>>
          ELSE <<>>) \o notes_of(Tail(regs), staff)

\* reg_json_utils.get_notes_json: the unit notes of the change registrations
\* without the transport permits; staff see the document id of each note.
get_notes_json(self, search, staff) == notes_of(self.change_registrations, staff)

\* reg_json_utils.get_non_staff_notes_json: the same notes without the
\* staff-only fields.
get_non_staff_notes_json(self, search) == notes_of(self.change_registrations, FALSE)

\* model_utils.update_reg_status: in the current view a home that is not
\* frozen already is FROZEN by an active TAXN, NCON or REST note, with the
\* document type of that note.
update_reg_status(reg_json, current) ==
    LET freezing == {i \in DOMAIN reg_json.notes :
                        /\ reg_json.notes[i].documentType \in FreezingNoteTypes
                        /\ reg_json.notes[i].status = ACTIVE}
    IN  IF current /\ reg_json.status # FROZEN /\ freezing # {}
        THEN [reg_json EXCEPT
                !.status = FROZEN,
                !.frozenDocumentType =
                    reg_json.notes[CHOOSE i \in freezing : \A j \in freezing : i <= j].documentType]
        ELSE reg_json

\* The test of new_registration_json with any change registration in the place
\* of the last one.
frozen_by_any_affidavit(self) ==
    \E i \in DOMAIN self.change_registrations :
        self.change_registrations[i].registration_type = TRANS_AFFIDAVIT

\* new_registration_json: the last change registration is a transfer due to
\* an affidavit of death.
frozen_by_affidavit(self) ==
    /\ self.change_registrations # <<>>
    /\ self.change_registrations[Len(self.change_registrations)].registration_type
            = TRANS_AFFIDAVIT

\* MhrRegistration.json: the registration as it was registered.
json(self, now) ==
    [view |-> "json", status |-> self.reg.status_type, frozenDocumentType |-> "",
     submitting |-> TRUE,
     ownerGroups |-> set_group_json(self, FALSE),
     hasNotes |-> FALSE, notes |-> <<>>,
     hasCaution |-> set_caution(self, now),
     payment |-> TRUE]

\* MhrRegistration.registration_json: the flags of the object after the read.
registration_json_self(self) ==
    [self EXCEPT !.current_view = TRUE, !.report_view = TRUE]

\* MhrRegistration.registration_json: the search version, always current.
registration_json(self, now) ==
    LET notes == get_notes_json(self, TRUE, self.staff)
    IN  [view |-> "registration_json", status |-> self.reg.status_type,
         submitting |-> TRUE,
         ownerGroups |-> set_group_json(registration_json_self(self), TRUE),
         hasNotes |-> notes # <<>>, notes |-> notes]

\* A read of new_registration_json that leaves current_view set.
new_registration_json_sets_current(self) == [self EXCEPT !.current_view = TRUE]

\* MhrRegistration.new_registration_json assigns nothing to the object.
new_registration_json_self(self) == self

\* MhrRegistration.new_registration_json: the new registration or the
\* current/composite version of the registration.
new_registration_json(self, now) ==
    IF self.reg.id > 0
    THEN LET reg_json ==
                [view |-> "new_registration_json",
                 status |-> IF frozen_by_affidavit(self) THEN FROZEN
                            ELSE self.reg.status_type,
                 frozenDocumentType |-> IF frozen_by_affidavit(self) THEN AFFE ELSE "",
                 submitting |-> ~self.current_view,
                 ownerGroups |-> set_group_json(self, self.current_view),
                 hasNotes |-> self.current_view,
                 notes |-> IF self.current_view /\ self.staff
                           THEN get_notes_json(self, FALSE, self.staff)
                           ELSE IF self.current_view
                                THEN get_non_staff_notes_json(self, FALSE)
                                ELSE <<>>,
                 hasCaution |-> set_caution(self, now),
                 payment |-> ~self.current_view]
         IN  update_reg_status(reg_json, self.current_view)
    ELSE json(self, now)

\* A caller loads the home: find_all_by_mhr_number returns the base registration
\* with its change registrations; the flags have the class defaults.
Lookup(p) ==
    /\ flow[p].pc = "idle"
    /\ base_reg.id > 0
    /\ flow' = [flow EXCEPT ![p] =
                    [IdleFlow EXCEPT !.pc = "loaded", !.kind = "view",
                                     !.self = [reg |-> find_all_by_mhr_number.reg,
                                               change_registrations |->
                                                    find_all_by_mhr_number.change_registrations,
                                               current_view |-> FALSE, staff |-> FALSE,
                                               report_view |-> FALSE]]]
    /\ UNCHANGED <<base_reg, change_registrations, reg_seq, pay_seq, now_ts>>

\* The operation op at the clock reading now: the object becomes after and
\* the caller receives out.
Record(fl, op, now, after, out) ==
    [fl EXCEPT !.prev = fl.last,
               !.last = [op |-> op, ts |-> now, before |-> fl.self, after |-> after,
                         out |-> out],
               !.self = after]

\* The caller assigns registration.current_view and registration.staff.
SetFlags(p) ==
    /\ flow[p].pc = "loaded"
    /\ flow[p].last.op = ""
    /\ \E current \in BOOLEAN, staff \in BOOLEAN :
        flow' = [flow EXCEPT ![p] =
                    [Record(flow[p], "set", now_ts,
                            [flow[p].self EXCEPT !.current_view = current, !.staff = staff],
                            [status |-> ""])
                     EXCEPT !.chosen = [current_view |-> current, staff |-> staff]]]
    /\ UNCHANGED <<base_reg, change_registrations, reg_seq, pay_seq, now_ts>>

\* The caller reads registration.json.
ReadJson(p) ==
    /\ flow[p].pc = "loaded"
    /\ flow' = [flow EXCEPT ![p] =
                    Record(flow[p], "json", now_ts, flow[p].self,
                           json(flow[p].self, now_ts))]
    /\ UNCHANGED <<base_reg, change_registrations, reg_seq, pay_seq, now_ts>>

\* The caller reads registration.registration_json.
ReadRegistrationJson(p) ==
    /\ flow[p].pc = "loaded"
    /\ flow' = [flow EXCEPT ![p] =
                    Record(flow[p], "registration_json", now_ts,
                           registration_json_self(flow[p].self),
                           registration_json(flow[p].self, now_ts))]
    /\ UNCHANGED <<base_reg, change_registrations, reg_seq, pay_seq, now_ts>>

\* The caller reads registration.new_registration_json.
ReadNewRegistrationJson(p) ==
    /\ flow[p].pc = "loaded"
    /\ flow' = [flow EXCEPT ![p] =
                    Record(flow[p], "new_registration_json", now_ts,
                           new_registration_json_self(flow[p].self),
                           new_registration_json(flow[p].self, now_ts))]
    /\ UNCHANGED <<base_reg, change_registrations, reg_seq, pay_seq, now_ts>>

\* The caller is done with the object.
Release(p) ==
    /\ flow[p].pc = "loaded"
    /\ flow' = [flow EXCEPT ![p] = IdleFlow]
    /\ UNCHANGED <<base_reg, change_registrations, reg_seq, pay_seq, now_ts>>

----------------------------------------------------------------------------
Init ==
    /\ base_reg = NoReg
    /\ change_registrations = <<>>
    /\ reg_seq = 0
    /\ pay_seq = 0
    /\ now_ts = 0
    /\ flow = [p \in Procs |-> IdleFlow]

Step(p, inputs, max_flows) ==
    \/ Request(p, inputs, max_flows)
    \/ PayCreditCard(p)
    \/ BuildFails(p)
    \/ SaveFails(p)
    \/ Save(p)
    \/ PriorUpdateFails(p)
    \/ PriorUpdate(p)
    \/ Respond(p)

\* Every kind of request, served one at a time.
AllInputs ==
    RegistrationInputs \cup TransferInputs \cup DeathTransferInputs
    \cup ExemptionInputs \cup PermitInputs \cup NoteInputs

Next == Tick \/ Step(1, AllInputs, MaxAllFlows)

Spec == Init /\ [][Next]_vars

\* Transfers, served one at a time.
OwnerInputs == RegistrationInputs \cup TransferInputs

OwnerNext == Step(1, OwnerInputs, MaxFlows)

OwnerSpec == Init /\ [][OwnerNext]_vars

\* Transfers, served concurrently.
RaceNext == \E p \in Procs : Step(p, OwnerInputs, MaxRaceFlows)

RaceSpec == Init /\ [][RaceNext]_vars

\* Unit notes (cautions) among other notes, served one at a time.
CautionInputs ==
    {i \in RegistrationInputs : Len(i[2].ownerGroups) = 1} \cup NoteInputs
    \cup {i \in PermitInputs : ~i[2].amendment /\ ~i[2].extension}

CautionNext ==
    \/ Tick
    \/ Request(1, CautionInputs, MaxCautionFlows)
    \/ Save(1)
    \/ PriorUpdate(1)
    \/ Respond(1)

CautionSpec == Init /\ [][CautionNext]_vars

\* Transport permits, their amendments and extensions, and exemptions.
PermitFlowInputs ==
    {i \in RegistrationInputs : Len(i[2].ownerGroups) = 1} \cup PermitInputs
    \cup {i \in ExemptionInputs : ~i[2].nonResidential}

PermitNext ==
    \/ Tick
    \/ Request(1, PermitFlowInputs, MaxPermitFlows)
    \/ Save(1)
    \/ PriorUpdate(1)
    \/ Respond(1)

PermitSpec == Init /\ [][PermitNext]_vars

\* Change requests whose payload names a registration type of its own.
PayloadTypes == {"", TRANS_AFFIDAVIT, MHREG, MHREG_CONVERSION}

TypedInputs ==
    {<<"transfer", Json(t, <<>>, 0, TRUE, {}, FALSE, FALSE, FALSE, "", 0)>> : t \in PayloadTypes}
    \cup {<<"exemption", Json(MHREG, <<>>, 0, FALSE, {}, FALSE, FALSE, FALSE, "", 0)>>,
          <<"permit", Json(MHREG, <<>>, 0, FALSE, {}, FALSE, FALSE, FALSE, "", 0)>>,
          <<"note", Json(MHREG, <<>>, 0, FALSE, {}, FALSE, FALSE, FALSE, "CAU", 0)>>}

TypeInputs == {i \in RegistrationInputs : Len(i[2].ownerGroups) = 1} \cup TypedInputs

TypeNext == Step(1, TypeInputs, MaxTypeFlows)

TypeSpec == Init /\ [][TypeNext]_vars

\* Unit notes registered by concurrent callers, the builder and the save of a
\* request being separate steps.
ClockInputs ==
    {i \in RegistrationInputs : Len(i[2].ownerGroups) = 1}
    \cup {i \in NoteInputs : i[2].noteDocumentType = "CAU" /\ i[2].expiryDateTime = 0}

ClockNext ==
    \E p \in Procs :
        \/ Request(p, ClockInputs, MaxClockFlows)
        \/ BuildRegistration(p)
        \/ SaveBuilt(p)
        \/ Respond(p)

ClockSpec == Init /\ [][ClockNext]_vars

\* Standard transfers and transfers due to death, served one at a time.
MaxDeathFlows == 3

DeathInputs == RegistrationInputs \cup TransferInputs \cup DeathTransferInputs

DeathNext == Step(1, DeathInputs, MaxDeathFlows)

DeathSpec == Init /\ [][DeathNext]_vars

\* New registrations whose payload has or lacks ownerGroups and location.
MaxNewFlows == 4

NewInputs ==
    {<<"registration", [i[2] EXCEPT !.hasLocation = l]>> :
        i \in RegistrationInputs, l \in BOOLEAN}
    \cup {<<"registration", [i[2] EXCEPT !.ownerGroups = <<>>, !.hasOwnerGroups = FALSE,
                                         !.hasLocation = l]>> :
            i \in RegistrationInputs, l \in BOOLEAN}

NewNext ==
    \/ Request(1, NewInputs, MaxNewFlows)
    \/ BuildNewRegistration(1)
    \/ SaveBuilt(1)
    \/ Respond(1)

NewSpec == Init /\ [][NewNext]_vars

\* New registrations and transfers whose owners give a party type, an
\* individualName and an organizationName or leave them out.
MaxPartyFlows == 2

OwnerJsonInputs ==
    {OwnerJson(t, i, o) : t \in {"", OWNER_IND, OWNER_BUS, EXECUTOR}, i \in BOOLEAN, o \in BOOLEAN}

PartyGroups == {[GroupJson(1, SOLE, 0, 0) EXCEPT !.owners = <<o>>] : o \in OwnerJsonInputs}

PartyInputs ==
    {<<"registration", Json(MHREG, <<g>>, 0, FALSE, {}, FALSE, FALSE, FALSE, "", 0)>> :
        g \in PartyGroups}
    \cup {<<"transfer", [Json(TRANS, <<>>, 0, TRUE, {1}, FALSE, FALSE, FALSE, "", 0)
                            EXCEPT !.addOwnerGroups = <<g>>]>> : g \in PartyGroups}

PartyNext == Step(1, PartyInputs, MaxPartyFlows)

PartySpec == Init /\ [][PartyNext]_vars

\* Transfers whose addOwnerGroups entries declare a groupId of their own.
MaxAddFlows == 3

AddGroupsInputs ==
    UNION {[1..n -> {GroupJson(g, t[1], t[2], t[3]) :
                        g \in {1, 3}, t \in {<<COMMON, 1, 2>>, <<SOLE, 0, 0>>}}] : n \in 0..2}

AddInputs ==
    RegistrationInputs
    \cup {<<"transfer", [Json(TRANS, <<>>, 0, TRUE, d, FALSE, FALSE, FALSE, "", 0)
                            EXCEPT !.addOwnerGroups = a]>> :
            a \in AddGroupsInputs, d \in {{}, {1}}}

AddNext == Step(1, AddInputs, MaxAddFlows)

AddSpec == Init /\ [][AddNext]_vars

\* New registrations whose payload gives each owner group a declared groupId,
\* a tenancy type and an interest, and a transfer that replaces group 1.
GroupJsonInputs ==
    {GroupJson(g, t[1], t[2], t[3]) :
        g \in {1, 3}, t \in {<<COMMON, 1, 2>>, <<COMMON, 5, 10>>, <<JOINT, 0, 0>>}}

OwnerGroupsInputs ==
    UNION {[1..n -> GroupJsonInputs] : n \in 1..MaxOwnerGroups}

GroupInputs ==
    {<<"registration", Json(MHREG, g, 0, FALSE, {}, FALSE, FALSE, FALSE, "", 0)>> :
        g \in OwnerGroupsInputs}
    \cup {<<"transfer", Json(TRANS, <<>>, 1, TRUE, {1}, FALSE, FALSE, FALSE, "", 0)>>}

GroupNext == Step(1, GroupInputs, MaxGroupFlows)

GroupSpec == Init /\ [][GroupNext]_vars

\* A home with one owner group, transfers (of sale, and due to an affidavit of
\* death), unit notes, and callers that read its views between the requests
\* that succeed.
ViewInputs ==
    {i \in RegistrationInputs : Len(i[2].ownerGroups) = 1}
    \cup {<<"transfer", Json(t, <<>>, 1, TRUE, {}, FALSE, FALSE, FALSE, "", 0)>> :
            t \in {TRANS, TRANS_AFFIDAVIT}}
    \cup {<<"note", Json(REG_NOTE, <<>>, 0, FALSE, {}, FALSE, FALSE, FALSE, "CAU", 1)>>,
          <<"note", Json(REG_NOTE, <<>>, 0, FALSE, {}, FALSE, FALSE, FALSE, "TAXN", 0)>>}

\* The clock moves on while a caller holds the loaded object.
ViewTick ==
    /\ flow[1].pc = "loaded"
    /\ now_ts < MaxViewTime
    /\ Tick

ViewNext ==
    \/ ViewTick
    \/ Request(1, ViewInputs, MaxViewFlows)
    \/ Save(1)
    \/ PriorUpdate(1)
    \/ Respond(1)
    \/ Lookup(1)
    \/ SetFlags(1)
    \/ ReadJson(1)
    \/ ReadRegistrationJson(1)
    \/ ReadNewRegistrationJson(1)
    \/ Release(1)

ViewSpec == Init /\ [][ViewNext]_vars

\* The payloads handed to the builders of change registrations: every
\* combination of registration type, document type overrides and flags.
BuilderJson ==
    {[Json(rt, <<>>, a, TRUE, d, nr, am, ex, nd, 0) EXCEPT
        !.documentType = dt, !.transferDocumentType = td, !.cancelDocumentId = cd] :
        rt \in {"", TRANS, TRANS_AFFIDAVIT}, a \in {1}, d \in {{}, {1}},
        nr \in BOOLEAN, am \in BOOLEAN, ex \in BOOLEAN,
        nd \in {"", "CAU", "NCAN"}, dt \in {"", "REGC_STAFF"},
        td \in {"", "TRANS_FAMILY_ACT"}, cd \in {"", "80001"}}

\* Each builder requires what it reads without a default: the exemption and
\* the unit note builders read json_data["note"].
BuilderInputs ==
    {i \in {"transfer", "exemption", "permit", "note", "admin"} \X BuilderJson :
        i[1] \in {"exemption", "note"} => i[2].noteDocumentType # ""}

\* A registered home with one owner group.
BuilderInit ==
    /\ base_reg \in {create_new_from_json(i[2], 1, 0) :
                        i \in {i \in RegistrationInputs : Len(i[2].ownerGroups) = 1}}
    /\ change_registrations = <<>>
    /\ reg_seq = 1
    /\ pay_seq = 1
    /\ now_ts = 0
    /\ flow = [p \in Procs |-> IdleFlow]

\* MhrRegistration.create_<kind>_from_json(base_reg, json_data, ...): the
\* registration built is kept by the caller, nothing is saved.
BuildFrom(p, inputs, max_builds) ==
    /\ flow[p].pc = "idle"
    /\ reg_seq < 1 + max_builds
    /\ \E input \in inputs :
        LET fl == [IdleFlow EXCEPT !.kind = input[1], !.json_data = input[2],
                                   !.current_reg = find_all_by_mhr_number]
        IN  /\ BuildOk(fl)
            /\ flow' = [flow EXCEPT ![p] =
                            [fl EXCEPT !.pc = "built",
                                       !.registration = Build(fl, reg_seq + 1, now_ts),
                                       !.current_reg.reg = BuiltBase(fl, @),
                                       !.registration_id = reg_seq + 1]]
    /\ reg_seq' = reg_seq + 1
    /\ UNCHANGED <<base_reg, change_registrations, pay_seq, now_ts>>

BuildChange(p) == BuildFrom(p, BuilderInputs, MaxBuilds)

\* The caller drops the registration it built.
Discard(p) ==
    /\ flow[p].pc = "built"
    /\ flow' = [flow EXCEPT ![p] = IdleFlow]
    /\ UNCHANGED <<base_reg, change_registrations, reg_seq, pay_seq, now_ts>>

BuilderNext == BuildChange(1) \/ Discard(1)

BuilderSpec == BuilderInit /\ [][BuilderNext]_vars

\* Change registrations whose payload names a registration type with or
\* without an entry in REG_TO_DOC_TYPE.
MaxTableFlows == 3

TableInputs ==
    {<<"transfer", Json(t, <<>>, a, TRUE, d, FALSE, FALSE, FALSE, "", 0)>> :
        t \in {"", TRANS, TRAND, AMENDMENT, MHREG_CONVERSION, "TRANS_UNKNOWN"},
        a \in AddCounts, d \in {{}, {1}}}
    \cup {i \in ExemptionInputs : ~i[2].nonResidential}

TableNext ==
    \/ Request(1, TableInputs, MaxTableFlows)
    \/ BuildChangeRegistration(1)
    \/ SaveBuilt(1)
    \/ PriorUpdate(1)
    \/ Respond(1)

TableSpec == BuilderInit /\ [][TableNext]_vars

\* Administrative registrations of every document type, with and without a
\* location, a description and owner group changes in the payload.
MaxAdminBuilds == 2

AdminDocTypes ==
    {"", "REGC_CLIENT", "EXRE", "REGC_STAFF", "STAT", "PUBA", "CANCEL_PERMIT", "NCAN", "NRED"}

AdminInputs ==
    {<<"admin", [Json("", <<>>, a, TRUE, d, FALSE, FALSE, FALSE, "", 0) EXCEPT
                    !.documentType = dt, !.hasLocation = l, !.hasDescription = ds]>> :
        a \in AddCounts, d \in {{}, {1}}, dt \in AdminDocTypes,
        l \in BOOLEAN, ds \in BOOLEAN}

BuildAdmin(p) == BuildFrom(p, AdminInputs, MaxAdminBuilds)

AdminNext == BuildAdmin(1) \/ Discard(1)

AdminSpec == BuilderInit /\ [][AdminNext]_vars

\* Lookups of a home by a business key.  The base registration row carries the
\* account that registered it (account_id) and the accounts that hold an extra
\* registration of its MHR number (extra_registrations: the rows of
\* MhrExtraRegistration for the number).
LookupAccounts == {NO_ACCOUNT, "PS12345", "PS99999"}

\* The document id of the base registration.
DOC_ID == "UT000010"

NOT_FOUND == "NOT_FOUND"
UNAUTHORIZED == "UNAUTHORIZED"
OK == "OK"

LookupRows ==
    {[f \in DOMAIN NoReg \cup {"account_id", "extra_registrations"} |->
        IF f = "account_id" THEN a
        ELSE IF f = "extra_registrations" THEN x
        ELSE create_new_from_json(i[2], 1, 0)[f]] :
        a \in LookupAccounts \ {NO_ACCOUNT}, x \in SUBSET (LookupAccounts \ {NO_ACCOUNT}),
        i \in {i \in RegistrationInputs : Len(i[2].ownerGroups) = 1}}

LookupInit ==
    /\ base_reg \in LookupRows \cup {NoReg}
    /\ change_registrations = <<>>
    /\ reg_seq = IF base_reg = NoReg THEN 0 ELSE 1
    /\ pay_seq = reg_seq
    /\ now_ts = 0
    /\ flow = [p \in Procs |-> IdleFlow]

\* The account check that puts the missing registration first: a caller of
\* another account is refused whether or not the registration exists.
authorize_first(registration, account_id, staff) ==
    IF /\ ~staff /\ account_id # NO_ACCOUNT
       /\ (registration = NoReg \/ registration.account_id # account_id)
       /\ (registration = NoReg \/ account_id \notin registration.extra_registrations)
    THEN [status_code |-> UNAUTHORIZED, registration |-> NoReg]
    ELSE IF registration = NoReg
    THEN [status_code |-> NOT_FOUND, registration |-> NoReg]
    ELSE [status_code |-> OK, registration |-> registration]

\* The end of the three lookups: NOT_FOUND without a registration; then, for
\* a caller that is not staff and gives an account id other than the
\* registration's, UNAUTHORIZED unless an extra registration exists.
authorize(registration, account_id, staff) ==
    IF registration = NoReg
    THEN [status_code |-> NOT_FOUND, registration |-> NoReg]
    ELSE IF /\ ~staff /\ account_id # NO_ACCOUNT
            /\ registration.account_id # account_id
            /\ account_id \notin registration.extra_registrations
    THEN [status_code |-> UNAUTHORIZED, registration |-> NoReg]
    ELSE [status_code |-> OK, registration |-> registration]

\* MhrRegistration.find_by_mhr_number (reg_type None): the registration of
\* type MHREG or MHREG_CONVERSION with the MHR number.
find_by_mhr_number(mhr_number, account_id, staff) ==
    authorize(IF mhr_number # "" /\ base_reg.mhr_number = mhr_number THEN base_reg
              ELSE NoReg,
              account_id, staff)

\* MhrRegistration.find_original_by_mhr_number
find_original_by_mhr_number(mhr_number, account_id, staff) ==
    authorize(IF mhr_number # "" /\ base_reg.mhr_number = mhr_number THEN base_reg
              ELSE NoReg,
              account_id, staff)

\* MhrRegistration.find_by_document_id: the registration of the document.
find_by_document_id(document_id, account_id, staff) ==
    authorize(IF document_id # "" /\ base_reg.id > 0 /\ document_id = DOC_ID THEN base_reg
              ELSE NoReg,
              account_id, staff)

LookupKeys == {"", MHR_NUMBER, "UX-XXX", DOC_ID}

\* A caller looks a home up; the flow keeps what it asked and what it got.
Find(p, method, result, key, account_id, staff) ==
    /\ flow[p].pc = "idle"
    /\ flow' = [flow EXCEPT ![p] =
                    [IdleFlow EXCEPT !.pc = result.status_code, !.kind = method,
                                     !.key = key, !.account_id = account_id,
                                     !.staff = staff,
                                     !.registration =
                                        IF result.registration = NoReg THEN NoReg
                                        ELSE [f \in DOMAIN NoReg |-> result.registration[f]]]]
    /\ UNCHANGED <<base_reg, change_registrations, reg_seq, pay_seq, now_ts>>

FindByMhrNumber(p) ==
    \E key \in LookupKeys, account_id \in LookupAccounts, staff \in BOOLEAN :
        Find(p, "find_by_mhr_number", find_by_mhr_number(key, account_id, staff),
             key, account_id, staff)

FindOriginalByMhrNumber(p) ==
    \E key \in LookupKeys, account_id \in LookupAccounts, staff \in BOOLEAN :
        Find(p, "find_original_by_mhr_number",
             find_original_by_mhr_number(key, account_id, staff), key, account_id, staff)

FindByDocumentId(p) ==
    \E key \in LookupKeys, account_id \in LookupAccounts, staff \in BOOLEAN :
        Find(p, "find_by_document_id", find_by_document_id(key, account_id, staff),
             key, account_id, staff)

LookupNext == FindByMhrNumber(1) \/ FindOriginalByMhrNumber(1) \/ FindByDocumentId(1)

LookupSpec == LookupInit /\ [][LookupNext]_vars

\* The interest of an owner group that adjust_group_interest may meet: halves,
\* thirds and tenths for tenants in common, none for joint tenants.
InterestGroups ==
    {[MhrOwnerGroup(0, 1) EXCEPT !.tenancy_type = t[1], !.interest_numerator = t[2],
                                 !.interest_denominator = t[3], !.status_type = st,
                                 !.modified = md] :
        t \in {<<COMMON, 1, 2>>, <<COMMON, 5, 10>>, <<COMMON, 1, 3>>, <<JOINT, 0, 0>>},
        st \in {ACTIVE, PREVIOUS}, md \in BOOLEAN}

\* A registration whose owner groups are numbered by position.
InterestRegs ==
    {[create_new_from_json(NoJson, 1, 0) EXCEPT
        !.owner_groups = [k \in DOMAIN g |->
                            [g[k] EXCEPT !.group_id = k, !.group_sequence_number = k]]] :
        g \in UNION {[1..n -> InterestGroups] : n \in 2..MaxOwnerGroups}}

InterestInit ==
    /\ base_reg \in InterestRegs
    /\ change_registrations = <<>>
    /\ reg_seq = 1
    /\ pay_seq = 0
    /\ now_ts = 0
    /\ flow = [p \in Procs |-> IdleFlow]

\* self.adjust_group_interest(new) on the registration; the flow keeps the
\* registration as it was.
AdjustGroupInterest(p) ==
    /\ flow[p].pc = "idle"
    /\ \E new \in BOOLEAN :
        /\ flow' = [flow EXCEPT ![p] =
                        [IdleFlow EXCEPT !.pc = "adjusted", !.kind = "adjust",
                                         !.new = new,
                                         !.current_reg = [reg |-> base_reg,
                                                          change_registrations |-> <<>>]]]
        /\ base_reg' = [base_reg EXCEPT
                            !.owner_groups = adjust_group_interest(base_reg.owner_groups, new)]
    /\ UNCHANGED <<change_registrations, reg_seq, pay_seq, now_ts>>

InterestNext == AdjustGroupInterest(1)

InterestSpec == InterestInit /\ [][InterestNext]_vars

----------------------------------------------------------------------------
(* Owner groups of the whole chain *)

AllRegs == <<base_reg>> \o change_registrations

\* <<registration position, group position>> of every owner group of the chain.
AllGroups ==
    UNION {{<<r, g>> : g \in DOMAIN AllRegs[r].owner_groups} : r \in DOMAIN AllRegs}

GroupAt(x) == AllRegs[x[1]].owner_groups[x[2]]

Superseded(group, new_reg_id) ==
    /\ group.status_type = PREVIOUS
    /\ group.change_registration_id = new_reg_id
    /\ \A o \in DOMAIN group.owners :
        /\ group.owners[o].status_type = PREVIOUS
        /\ group.owners[o].change_registration_id = new_reg_id

\* C1: no two owner groups of one MHR number (chain root and change
\* registrations, ACTIVE or PREVIOUS) carry the same group_id: add_new_groups
\* never hands out a group_id that is already on the chain.
C1_GroupIdNeverReused ==
    \A x, y \in AllGroups : x # y => GroupAt(x).group_id # GroupAt(y).group_id

\* C2: at most one owner group with a given group_id is ACTIVE, over the
\* chain root and all change registrations together.
C2_OneActiveGroupPerId ==
    \A x, y \in AllGroups :
        (/\ x # y
         /\ GroupAt(x).status_type = ACTIVE
         /\ GroupAt(y).status_type = ACTIVE)
        => GroupAt(x).group_id # GroupAt(y).group_id

\* The owner groups save_transfer of flow p had to supersede: those of the root
\* and of the prior change registrations whose group_id is in deleteOwnerGroups.
DeletedBy(p) ==
    {x \in AllGroups :
        /\ AllRegs[x[1]].id # flow[p].registration_id
        /\ GroupAt(x).group_id \in flow[p].json_data.deleteOwnerGroups}

TransferReturned(p) ==
    /\ flow[p].pc = "returned"
    /\ flow[p].kind = "transfer"

\* C3: after save_transfer(payload, new_reg_id), every owner group of the root
\* or of a prior change registration whose group_id is listed in
\* deleteOwnerGroups is PREVIOUS and stamped with new_reg_id, and so is each
\* of its owners.
C3_SaveTransferSupersedes ==
    TransferReturned(1) =>
        \A x \in DeletedBy(1) : Superseded(GroupAt(x), flow[1].registration_id)

\* A transfer returned that superseded a group of a prior change registration.
C3_Witness ==
    /\ TransferReturned(1)
    /\ \E x \in DeletedBy(1) : x[1] > 1

----------------------------------------------------------------------------
(* Failure of a pay_and_save_* flow *)

Raised(p) == flow[p].pc = "raised"

\* C4: when a pay_and_save_* flow ends by raising an error to the caller, the
\* stored chain is the one the flow loaded: neither the new change
\* registration nor any update of a prior chain member has been committed.
C4_AllOrNothing ==
    Raised(1) => find_all_by_mhr_number = flow[1].current_reg

\* C5 as stated: whenever a flow raises after the invoice id was obtained,
\* cancel_payment was invoked with that invoice id, for every caller account,
\* a missing account id included.
C5_RefundForEveryAccount ==
    Raised(1) =>
        /\ flow[1].cancel_payment # "none"
        /\ flow[1].cancel_invoice_id = flow[1].invoice_id

\* C5: whenever a flow raises DatabaseException after the invoice id was
\* obtained, cancel_payment was invoked exactly when the caller's account id
\* is present, and then with that invoice id; the exception is raised whether
\* the cancel succeeded or failed.
C5_RefundWhenAccountKnown ==
    Raised(1) =>
        /\ flow[1].invoice_id # 0
        /\ (flow[1].cancel_payment # "none") <=> (flow[1].account_id # NO_ACCOUNT)
        /\ flow[1].cancel_payment # "none" =>
                flow[1].cancel_invoice_id = flow[1].invoice_id

\* A flow raised after a prior chain update failed and the refund failed too.
C5_Witness ==
    /\ Raised(1)
    /\ flow[1].registration_id # 0
    /\ flow[1].cancel_payment = "cancel_failed"

----------------------------------------------------------------------------
(* Concurrent transfers *)

\* The change registration a flow saved.
SavedBy(p) ==
    {i \in DOMAIN change_registrations :
        change_registrations[i].id = flow[p].registration_id}

AddedGroupIds(p) ==
    UNION {{change_registrations[i].owner_groups[g].group_id :
                g \in DOMAIN change_registrations[i].owner_groups} : i \in SavedBy(p)}

\* Both flows are transfers that returned, and each loaded the aggregate before
\* the other saved its registration.
ConcurrentTransfers(p, q) ==
    /\ p # q
    /\ TransferReturned(p)
    /\ TransferReturned(q)
    /\ flow[p].registration_id \notin LoadedIds(flow[q].current_reg)
    /\ flow[q].registration_id \notin LoadedIds(flow[p].current_reg)

\* The owner groups flow p loaded and had to supersede.
LoadedDeletedBy(p) ==
    {x \in DeletedBy(p) :
        AllRegs[x[1]].id \in LoadedIds(flow[p].current_reg) \cup {flow[p].current_reg.reg.id}}

\* C6: two transfers of one MHR number that each loaded the aggregate before
\* the other committed never both return with added owner groups that share a
\* group_id, nor with a group supersession of one of them lost.
C6_ConcurrentTransfersIsolated ==
    \A p, q \in Procs :
        ConcurrentTransfers(p, q) =>
            /\ AddedGroupIds(p) \cap AddedGroupIds(q) = {}
            /\ \A x \in LoadedDeletedBy(p) :
                    Superseded(GroupAt(x), flow[p].registration_id)

----------------------------------------------------------------------------
(* Cautions *)

\* hasCaution of the registration JSON, read in the current state.
hasCaution == set_caution(find_all_by_mhr_number, now_ts)

\* The positions of the caution notes on the chain.
Cautions ==
    {i \in DOMAIN change_registrations :
        /\ HasNote(change_registrations[i])
        /\ change_registrations[i].notes[1].document_type \in CautionTypes}

CautionNote(i) == change_registrations[i].notes[1]

Expired(note) == note.expiry_date # 0 /\ note.expiry_date < now_ts

Unexpired(note) == note.expiry_date > now_ts

\* A caution note that is currently in force.
InForce(note) ==
    /\ note.status_type = ACTIVE
    /\ \/ note.expiry_date = 0 /\ note.document_type = "CAUC"
       \/ note.expiry_date > now_ts

\* C7: with exactly two caution notes on the chain, the earlier expired and the
\* later not yet expired, set_caution() is true; with the expired one alone
\* it is false.
C7_ExpiredThenUnexpired ==
    /\ \A i, j \in Cautions :
        (/\ Cautions = {i, j}
         /\ i < j
         /\ Expired(CautionNote(i))
         /\ Unexpired(CautionNote(j))) => hasCaution
    /\ \A i \in Cautions :
        (Cautions = {i} /\ Expired(CautionNote(i))) => ~hasCaution

\* Some ACTIVE caution notes of the chain carry an expiry date.
Several == Cardinality(ExpiringCautions(change_registrations)) >= 2

MostRecent ==
    CHOOSE i \in ExpiringCautions(change_registrations) :
        \A j \in ExpiringCautions(change_registrations) : j <= i

Earliest ==
    CHOOSE i \in ExpiringCautions(change_registrations) :
        \A j \in ExpiringCautions(change_registrations) : i <= j

C9_TrueIffInForce ==
    hasCaution <=> \E i \in Cautions : InForce(CautionNote(i))

----------------------------------------------------------------------------
(* Transport permit amendments *)

\* The flow is an amendment whose registration has been saved.
AmendmentSaved(p) ==
    /\ flow[p].kind = "permit"
    /\ flow[p].json_data.amendment
    /\ flow[p].pc \in {"saved", "returned"}

LoadedPermits(p) == ExpiringPermits(flow[p].current_reg.change_registrations)

MostRecentPermit(p) ==
    flow[p].current_reg.change_registrations[
        CHOOSE i \in LoadedPermits(p) : \A j \in LoadedPermits(p) : j <= i]

\* C10: an amendment of a chain that holds at least one ACTIVE permit note
\* (REG_103, REG_103E, AMEND_PERMIT) with an expiry date creates a note whose
\* expiry_date is that of the most recent such note.
C10_AmendmentReusesExpiry ==
    (AmendmentSaved(1) /\ LoadedPermits(1) # {}) =>
        \A i \in SavedBy(1) :
            change_registrations[i].notes[1].expiry_date =
                MostRecentPermit(1).notes[1].expiry_date

\* An amendment saved on a chain with two ACTIVE permit notes of different
\* expiry, the most recent one not being the newly computed expiry either.
C10_Witness ==
    /\ AmendmentSaved(1)
    /\ \E i, j \in LoadedPermits(1) :
        flow[1].current_reg.change_registrations[i].notes[1].expiry_date #
            flow[1].current_reg.change_registrations[j].notes[1].expiry_date
    /\ \A i \in SavedBy(1) :
        MostRecentPermit(1).notes[1].expiry_date #
            compute_permit_expiry(change_registrations[i].registration_ts)

----------------------------------------------------------------------------
(* Exemptions and note status *)

ExemptionReturned(p) ==
    /\ flow[p].pc = "returned"
    /\ flow[p].kind = "exemption"

IsPermitNote(reg) == HasNote(reg) /\ reg.notes[1].document_type \in PermitTypes

\* The positions of the loaded change registrations whose permit note was ACTIVE.
LoadedActivePermits(p) ==
    {i \in DOMAIN flow[p].current_reg.change_registrations :
        /\ IsPermitNote(flow[p].current_reg.change_registrations[i])
        /\ flow[p].current_reg.change_registrations[i].notes[1].status_type = ACTIVE}

\* C11: after save_exemption(new_reg_id) the root is EXEMPT, no change
\* registration holds an ACTIVE transport permit note, and every permit note
\* that was ACTIVE is CANCELLED with change_registration_id = new_reg_id.
C11_ExemptionCancelsPermits ==
    ExemptionReturned(1) =>
        /\ base_reg.status_type = EXEMPT
        /\ \A i \in DOMAIN change_registrations :
                IsPermitNote(change_registrations[i]) =>
                    change_registrations[i].notes[1].status_type # ACTIVE
        /\ \A i \in LoadedActivePermits(1) :
                /\ change_registrations[i].notes[1].status_type = CANCELLED
                /\ change_registrations[i].notes[1].change_registration_id =
                        flow[1].registration_id

\* An exemption returned on a chain that held an ACTIVE permit note.
C11_Witness ==
    /\ ExemptionReturned(1)
    /\ LoadedActivePermits(1) # {}

\* The status a note may take after status.
NoteStatusMoves(status) ==
    IF status = ACTIVE THEN {ACTIVE, CANCELLED, "EXPIRED"} ELSE {status}

\* C12: a note's status only moves from ACTIVE to CANCELLED or EXPIRED: no
\* step sets a CANCELLED or EXPIRED note back to ACTIVE or moves it between
\* CANCELLED and EXPIRED.
C12_NoteStatusMonotone ==
    [][\A i \in DOMAIN change_registrations :
            HasNote(change_registrations[i]) =>
                /\ i \in DOMAIN change_registrations'
                /\ HasNote(change_registrations'[i])
                /\ change_registrations'[i].notes[1].status_type \in
                        NoteStatusMoves(change_registrations[i].notes[1].status_type)]_vars

\* A second exemption has run over a permit note that an earlier one cancelled.
C12_Witness ==
    /\ ExemptionReturned(1)
    /\ \E i \in DOMAIN flow[1].current_reg.change_registrations :
        /\ IsPermitNote(flow[1].current_reg.change_registrations[i])
        /\ flow[1].current_reg.change_registrations[i].notes[1].status_type = CANCELLED

----------------------------------------------------------------------------
(* Chain integrity *)

RootTypes == {MHREG, MHREG_CONVERSION}

\* C13: exactly one registration of the chain has type MHREG or
\* MHREG_CONVERSION: no change registration is of a root type, whatever
\* registrationType the payload of its request carried.
C13_OneRootType ==
    base_reg.id # 0 =>
        Cardinality({i \in DOMAIN AllRegs : AllRegs[i].registration_type \in RootTypes}) = 1

\* C14: every change registration carries the MHR number of the base
\* registration, and the change registrations have strictly increasing
\* registration_ts in the order in which they were inserted.
C14_KeyAndTimestampOrder ==
    /\ \A i \in DOMAIN change_registrations :
            change_registrations[i].mhr_number = base_reg.mhr_number
    /\ \A i, j \in DOMAIN change_registrations :
            i < j => change_registrations[i].registration_ts <
                        change_registrations[j].registration_ts

----------------------------------------------------------------------------
(* The owner groups of a new registration *)

\* The new registration of request p was built from its payload and saved.
RegistrationBuilt(p) ==
    /\ flow[p].kind = "registration"
    /\ flow[p].pc = "returned"

CommonGroups ==
    {i \in DOMAIN base_reg.owner_groups :
        /\ base_reg.owner_groups[i].tenancy_type = COMMON
        /\ base_reg.owner_groups[i].status_type = ACTIVE}

\* C18: after a new registration is built from a payload with several
\* COMMON-tenancy owner groups, all ACTIVE COMMON groups of the registration
\* have the same interest denominator.
C18_CommonDenominator ==
    \A p \in Procs :
        RegistrationBuilt(p) =>
            \A i, j \in CommonGroups :
                base_reg.owner_groups[i].interest_denominator =
                    base_reg.owner_groups[j].interest_denominator

\* C19: create_new_groups keeps each group's interest numerator and
\* denominator exactly as the payload gives them, and leaves both unset (0) for
\* a group that declares no interest.
C19_InterestAsGiven ==
    \A p \in Procs :
        RegistrationBuilt(p) =>
            /\ Len(base_reg.owner_groups) = Len(flow[p].json_data.ownerGroups)
            /\ \A k \in DOMAIN base_reg.owner_groups :
                /\ base_reg.owner_groups[k].interest_numerator =
                        flow[p].json_data.ownerGroups[k].interestNumerator
                /\ base_reg.owner_groups[k].interest_denominator =
                        flow[p].json_data.ownerGroups[k].interestDenominator

\* A registration built from a payload with the groups 1/2 and 5/10.
C19_Witness ==
    \E p \in Procs :
        /\ RegistrationBuilt(p)
        /\ \E i, j \in DOMAIN flow[p].json_data.ownerGroups :
            /\ flow[p].json_data.ownerGroups[i].interestNumerator = 1
            /\ flow[p].json_data.ownerGroups[i].interestDenominator = 2
            /\ flow[p].json_data.ownerGroups[j].interestNumerator = 5
            /\ flow[p].json_data.ownerGroups[j].interestDenominator = 10
            /\ base_reg.owner_groups[i].interest_denominator = 2
            /\ base_reg.owner_groups[j].interest_denominator = 10

\* C20: create_new_groups builds one ACTIVE owner group per entry of
\* ownerGroups, in payload order, with group_id and group_sequence_number both
\* equal to the 1-based position of the entry, whatever groupId it declares.
C20_NumberedByPosition ==
    \A p \in Procs :
        RegistrationBuilt(p) =>
            /\ Len(base_reg.owner_groups) = Len(flow[p].json_data.ownerGroups)
            /\ \A k \in DOMAIN base_reg.owner_groups :
                /\ base_reg.owner_groups[k].group_id = k
                /\ base_reg.owner_groups[k].group_sequence_number = k
                /\ base_reg.owner_groups[k].status_type = ACTIVE
                /\ base_reg.owner_groups[k].registration_id = base_reg.id
                /\ base_reg.owner_groups[k].tenancy_type =
                        flow[p].json_data.ownerGroups[k].type

\* A registration built from two entries whose declared groupIds are not their
\* positions.
C20_Witness ==
    \E p \in Procs :
        /\ RegistrationBuilt(p)
        /\ Len(flow[p].json_data.ownerGroups) = 2
        /\ flow[p].json_data.ownerGroups[1].groupId = 3
        /\ flow[p].json_data.ownerGroups[2].groupId = 1
        /\ base_reg.owner_groups[1].group_id = 1
        /\ base_reg.owner_groups[2].group_id = 2

----------------------------------------------------------------------------
(* Views of an unchanged aggregate *)

\* Request p read new_registration_json twice in a row.
ReadTwice(p) ==
    /\ flow[p].prev.op = "new_registration_json"
    /\ flow[p].last.op = "new_registration_json"

\* The loaded registration and chain, without the flags of the object.
Aggregate(self) == [reg |-> self.reg, change_registrations |-> self.change_registrations]

C16_SnapshotWhenNotCurrent ==
    \A p \in Procs :
        (flow[p].last.op = "new_registration_json" /\ ~flow[p].chosen.current_view) =>
            /\ flow[p].last.out.ownerGroups = set_group_json(flow[p].self, FALSE)
            /\ ~flow[p].last.out.hasNotes
            /\ flow[p].last.out.notes = <<>>
            /\ flow[p].last.out.status = flow[p].self.reg.status_type

\* new_registration_json was read in the current view.
ReadCurrent(p) ==
    /\ flow[p].last.op = "new_registration_json"
    /\ flow[p].last.before.current_view

\* The most recent change registration of the loaded chain is a transfer due to
\* an affidavit of death.
LastIsAffidavit(self) ==
    LET n == Len(self.change_registrations)
    IN  n > 0 /\ self.change_registrations[n].registration_type = TRANS_AFFIDAVIT

HasFreezingNote(self) ==
    \E i \in DOMAIN self.change_registrations :
        /\ HasNote(self.change_registrations[i])
        /\ self.change_registrations[i].notes[1].document_type \in FreezingNoteTypes
        /\ self.change_registrations[i].notes[1].status_type = ACTIVE

----------------------------------------------------------------------------
(* The common denominator of the tenants in common *)

\* adjust_group_interest(True) was applied by request p to the groups before.
Adjusted(p) == flow[p].pc = "adjusted" /\ flow[p].new

GroupsBefore(p) == flow[p].current_reg.reg.owner_groups

ActiveCommon(groups) ==
    {i \in DOMAIN groups : groups[i].tenancy_type = COMMON /\ groups[i].status_type = ACTIVE}

\* C21: adjust_group_interest rescales the ACTIVE COMMON groups so that they
\* all share the largest denominator found among them, each group keeping the
\* value of its fraction with the integer numerator
\* oldNumerator * commonDenominator / oldDenominator.
C21_CommonDenominatorIntegerNumerator ==
    \A p \in Procs :
        Adjusted(p) =>
            LET before == GroupsBefore(p)
                after == base_reg.owner_groups
                common == ActiveCommon(before)
            IN  \A i \in common :
                    /\ after[i].interest_denominator =
                            Max({before[k].interest_denominator : k \in common})
                    /\ after[i].interest_numerator_remainder = 0
                    /\ after[i].interest_numerator * before[i].interest_denominator =
                            before[i].interest_numerator * after[i].interest_denominator

----------------------------------------------------------------------------
(* The document type of a change registration *)

\* Request p holds the registration a builder returned for its payload.
Built(p) == flow[p].pc = "built"

\* The document type overrides the payload carries.
Overrides(json_data) ==
    {json_data.documentType, json_data.transferDocumentType, json_data.noteDocumentType}
        \ {""}

TransferType(json_data) ==
    IF json_data.registrationType = "" THEN TRANS ELSE json_data.registrationType

----------------------------------------------------------------------------
(* Unit notes and cancellation notes *)

----------------------------------------------------------------------------
(* Lookups *)

Lookups == {"find_by_mhr_number", "find_original_by_mhr_number", "find_by_document_id"}

\* The caller of request p owns the home or holds an extra registration of it.
Entitled(p) ==
    /\ base_reg # NoReg
    /\ \/ base_reg.account_id = flow[p].account_id
       \/ flow[p].account_id \in base_reg.extra_registrations

\* The key request p asked for names the home.
KeyExists(p) ==
    /\ base_reg # NoReg
    /\ flow[p].key = IF flow[p].kind = "find_by_document_id" THEN DOC_ID ELSE MHR_NUMBER

\* C23: the lookups return a registration only to a caller whose account id
\* is the root's or for whom an extra registration exists; every other caller
\* that is not staff, one without an account id included, gets UNAUTHORIZED
\* and no registration.
C23_OnlyOwnerOrGrant ==
    \A p \in Procs :
        (flow[p].kind \in Lookups /\ ~flow[p].staff /\ KeyExists(p)) =>
            IF Entitled(p)
            THEN flow[p].pc = OK /\ flow[p].registration # NoReg
            ELSE flow[p].pc = UNAUTHORIZED /\ flow[p].registration = NoReg

\* C24: find_by_mhr_number and find_original_by_mhr_number raise NOT_FOUND for
\* an MHR number without a root registration, for every caller (owner, other
\* account, no account, staff): the account check comes after.
C24_NotFoundFirst ==
    \A p \in Procs :
        (flow[p].kind \in {"find_by_mhr_number", "find_original_by_mhr_number"}
         /\ ~KeyExists(p)) =>
            flow[p].pc = NOT_FOUND /\ flow[p].registration = NoReg

\* A caller of another account asked for a number that does not exist, while
\* a home of a different account is registered.
C24_Witness ==
    \E p \in Procs :
        /\ flow[p].kind = "find_by_mhr_number"
        /\ flow[p].key = "UX-XXX"
        /\ flow[p].account_id = "PS99999"
        /\ ~flow[p].staff
        /\ base_reg # NoReg
        /\ base_reg.account_id = "PS12345"
        /\ flow[p].pc = NOT_FOUND

----------------------------------------------------------------------------
(* Optional owner-group changes of a transfer *)

\* C26: owner-group changes are optional in a transfer: pay_and_save_transfer
\* with a payload without deleteOwnerGroups (with or without addOwnerGroups)
\* completes without error once the transfer is saved: the update of the
\* prior chain does not raise, and the request does not end in an error.
C26_DeleteGroupsOptional ==
    \A p \in Procs :
        (/\ flow[p].kind = "transfer"
         /\ ~flow[p].json_data.hasDeleteOwnerGroups
         /\ flow[p].registration_id # 0) =>
            /\ flow[p].pc = "saved" => ~remove_groups_raises(flow[p].json_data)
            /\ flow[p].pc # "raised"

----------------------------------------------------------------------------
(* Numbering of added owner groups *)

\* The number of ACTIVE owner groups of the aggregate a request loaded.
ExistingCount(current_reg) ==
    Cardinality({g \in {<<0, i>> : i \in DOMAIN current_reg.reg.owner_groups} \cup
                        {<<r, i>> : r \in DOMAIN current_reg.change_registrations,
                                    i \in 1..MaxGroupId + 2} :
                    IF g[1] = 0
                    THEN current_reg.reg.owner_groups[g[2]].status_type = ACTIVE
                    ELSE /\ g[2] \in DOMAIN current_reg.change_registrations[g[1]].owner_groups
                         /\ current_reg.change_registrations[g[1]].owner_groups[g[2]].status_type = ACTIVE})

\* The transfer registration request p saved.
SavedTransfer(p) ==
    CHOOSE reg \in {change_registrations[i] : i \in DOMAIN change_registrations} :
        reg.id = flow[p].registration_id

TransferSaved(p) ==
    /\ flow[p].kind = "transfer"
    /\ flow[p].pc = "saved"

\* C27: the k-th entry of addOwnerGroups becomes the group with group_id
\* existing_count + k, existing_count being the number of owner groups active
\* on the aggregate the transfer was built from; the entry's own groupId is
\* not the group_id.
C27_AddedGroupsNumbered ==
    \A p \in Procs :
        TransferSaved(p) =>
            /\ Len(SavedTransfer(p).owner_groups) = Len(flow[p].json_data.addOwnerGroups)
            /\ \A k \in DOMAIN SavedTransfer(p).owner_groups :
                    SavedTransfer(p).owner_groups[k].group_id
                        = ExistingCount(flow[p].current_reg) + k

\* A transfer added two groups to a home with two active groups, and the
\* second entry declared groupId 1: it became group 4.
C27_Witness ==
    \E p \in Procs :
        /\ TransferSaved(p)
        /\ ExistingCount(flow[p].current_reg) = 2
        /\ Len(flow[p].json_data.addOwnerGroups) = 2
        /\ flow[p].json_data.addOwnerGroups[2].groupId = 1
        /\ SavedTransfer(p).owner_groups[2].group_id = 4

----------------------------------------------------------------------------
(* Death metadata of superseded owners *)

\* The registration types of a transfer due to death.
DeathTransferTypes == {"TRAND", "TRANS_ADMIN", "TRANS_AFFIDAVIT", "TRANS_WILL"}

\* The owners of the chain that carry death metadata:
\* <<registration id, group position, owner position>>.
DeceasedOwners ==
    {o \in {<<reg.id, g, i>> :
                reg \in {base_reg} \cup {change_registrations[r] : r \in DOMAIN change_registrations},
                g \in 1..MaxGroupId + 2, i \in {1}} :
        \E reg \in {base_reg} \cup {change_registrations[r] : r \in DOMAIN change_registrations} :
            /\ reg.id = o[1]
            /\ o[2] \in DOMAIN reg.owner_groups
            /\ o[3] \in DOMAIN reg.owner_groups[o[2]].owners
            /\ reg.owner_groups[o[2]].owners[o[3]].deceased}

----------------------------------------------------------------------------
(* Party type of owners *)

\* The registration request p saved.
SavedRegistration(p) ==
    IF flow[p].kind = "registration" THEN base_reg
    ELSE CHOOSE reg \in {change_registrations[i] : i \in DOMAIN change_registrations} :
            reg.id = flow[p].registration_id

\* The payload entries the groups of the saved registration were built from.
PayloadGroups(p) ==
    IF flow[p].kind = "registration" THEN flow[p].json_data.ownerGroups
    ELSE flow[p].json_data.addOwnerGroups

OwnersSaved(p) ==
    /\ flow[p].kind \in {"registration", "transfer"}
    /\ flow[p].pc \in {"saved", "returned"}

\* C29: an owner built by create_new_groups or add_new_groups has the party
\* type its payload entry gives; without one it is OWNER_IND when the entry
\* has an individualName and OWNER_BUS otherwise.
C29_ExplicitPartyTypeKept ==
    \A p \in Procs :
        OwnersSaved(p) =>
            \A g \in DOMAIN PayloadGroups(p) :
                \A o \in DOMAIN PayloadGroups(p)[g].owners :
                    LET owner_json == PayloadGroups(p)[g].owners[o]
                    IN  SavedRegistration(p).owner_groups[g].owners[o].party_type =
                            IF owner_json.partyType # "" THEN owner_json.partyType
                            ELSE IF owner_json.individualName THEN OWNER_IND
                            ELSE OWNER_BUS

----------------------------------------------------------------------------
(* Payloads without a required field *)

\* The builder of request p has run on a payload without ownerGroups or
\* without location.
BuiltWithoutRequired(p) ==
    /\ flow[p].kind = "registration"
    /\ flow[p].pc \notin {"idle", "request"}
    /\ ~flow[p].json_data.hasOwnerGroups \/ ~flow[p].json_data.hasLocation

\* C25: create_new_from_json on a payload without ownerGroups or without
\* location fails before any entity is constructed: the request ends raised
\* with no registration object, no generated id, no owner group and the draft
\* not updated.
C25_FailsBeforeConstruction ==
    \A p \in Procs :
        BuiltWithoutRequired(p) =>
            /\ flow[p].pc = "raised"
            /\ flow[p].registration = NoReg
            /\ flow[p].registration_id = 0
            /\ flow[p].draft = NoJson

----------------------------------------------------------------------------
(* Administrative registrations: what the payload may attach *)

AdminBuilt(p) == flow[p].pc = "built" /\ flow[p].kind = "admin"

\* The document type of an administrative registration: the payload's
\* documentType, CAU of the table without one.
AdminDocumentType(json_data) ==
    IF json_data.documentType # "" THEN json_data.documentType ELSE "CAU"

\* C31: create_admin_from_json attaches a location exactly when the payload
\* has one and the document type is REGC_CLIENT, EXRE, REGC_STAFF, STAT, PUBA or
\* CANCEL_PERMIT; a description with sections exactly when the payload has one
\* and the type is REGC_CLIENT, EXRE, REGC_STAFF or PUBA; owner groups exactly
\* when the payload has addOwnerGroups and deleteOwnerGroups and the type is
\* REGC_CLIENT, REGC_STAFF, PUBA or EXRE.  For every other type it has none.
C31_AdminAllowLists ==
    \A p \in Procs :
        AdminBuilt(p) =>
            LET json_data == flow[p].json_data
                registration == flow[p].registration
                type == AdminDocumentType(json_data)
            IN  /\ registration.locations # <<>> <=>
                        /\ json_data.hasLocation
                        /\ type \in {"REGC_CLIENT", "EXRE", "REGC_STAFF", "STAT", "PUBA",
                                      "CANCEL_PERMIT"}
                /\ registration.descriptions # <<>> <=>
                        /\ json_data.hasDescription
                        /\ type \in {"REGC_CLIENT", "EXRE", "REGC_STAFF", "PUBA"}
                /\ registration.sections # <<>> <=> registration.descriptions # <<>>
                /\ registration.owner_groups # <<>> <=>
                        /\ json_data.addOwnerGroups # <<>>
                        /\ json_data.deleteOwnerGroups # {}
                        /\ type \in {"REGC_CLIENT", "REGC_STAFF", "PUBA", "EXRE"}

\* A STAT registration whose payload has a location, a description and owner
\* group changes: it has the location and neither description nor groups.
C31_Witness ==
    \E p \in Procs :
        /\ AdminBuilt(p)
        /\ flow[p].json_data.documentType = "STAT"
        /\ flow[p].json_data.hasLocation
        /\ flow[p].json_data.hasDescription
        /\ flow[p].json_data.addOwnerGroups # <<>>
        /\ flow[p].json_data.deleteOwnerGroups # {}
        /\ flow[p].registration.locations # <<>>
        /\ flow[p].registration.descriptions = <<>>
        /\ flow[p].registration.owner_groups = <<>>

----------------------------------------------------------------------------
(* Transport permits: the new location *)

PermitBuilt(p) == flow[p].pc = "built" /\ flow[p].kind = "permit"

\* The permit payload asks for an extension: the extension flag without the
\* amendment flag (document type REG_103E).
IsExtension(json_data) == json_data.extension /\ ~json_data.amendment

\* C32: create_permit_from_json attaches one new location, a row of the new
\* registration, for a transport permit and for an amendment, and none for an
\* extension (document type REG_103E).
C32_NewLocationUnlessExtension ==
    \A p \in Procs :
        PermitBuilt(p) =>
            LET registration == flow[p].registration
            IN  IF IsExtension(flow[p].json_data)
                THEN /\ registration.document_type = "REG_103E"
                     /\ registration.locations = <<>>
                ELSE /\ registration.document_type # "REG_103E"
                     /\ Len(registration.locations) = 1
                     /\ registration.locations[1].registration_id = registration.id
                     /\ registration.locations[1].status_type = ACTIVE

\* An extension was built without a location.
C32_Witness ==
    \E p \in Procs :
        /\ PermitBuilt(p)
        /\ IsExtension(flow[p].json_data)
        /\ flow[p].registration.registration_type = PERMIT_EXTENSION
        /\ flow[p].registration.locations = <<>>

----------------------------------------------------------------------------
(* Transport permits: the note *)

PermitSaved(p) ==
    /\ flow[p].kind = "permit"
    /\ flow[p].pc \in {"saved", "returned"}

\* The registration the permit request p saved.
SavedPermit(p) ==
    CHOOSE reg \in {change_registrations[i] : i \in DOMAIN change_registrations} :
        reg.id = flow[p].registration_id

\* The chain request p loaded holds an ACTIVE permit note with an expiry date.
LoadedExpiringPermit(p) ==
    \E i \in DOMAIN flow[p].current_reg.change_registrations :
        LET reg == flow[p].current_reg.change_registrations[i]
        IN  /\ reg.notes # <<>>
            /\ reg.notes[1].status_type = ACTIVE
            /\ reg.notes[1].expiry_date # 0
            /\ reg.notes[1].document_type \in {"REG_103", "REG_103E", "AMEND_PERMIT"}

\* C38: the note create_permit_from_json creates is ACTIVE, has the document
\* type of the registration's document and an expiry date: the newly computed
\* one for a permit, an extension, and an amendment of a chain without an
\* ACTIVE permit note with an expiry date; with both flags the amendment wins.
C38_PermitNoteHasExpiry ==
    \A p \in Procs :
        PermitSaved(p) =>
            LET registration == SavedPermit(p)
                note == registration.notes[1]
                json_data == flow[p].json_data
            IN  /\ Len(registration.notes) = 1
                /\ note.status_type = ACTIVE
                /\ note.document_type = registration.document_type
                /\ note.expiry_date # 0
                /\ (~json_data.amendment \/ ~LoadedExpiringPermit(p)) =>
                        note.expiry_date = registration.registration_ts + 1
                /\ json_data.amendment =>
                        /\ registration.registration_type = AMENDMENT
                        /\ registration.document_type = "AMEND_PERMIT"
                /\ (json_data.extension /\ ~json_data.amendment) =>
                        registration.document_type = "REG_103E"
                /\ (~json_data.extension /\ ~json_data.amendment) =>
                        registration.document_type = "REG_103"

\* An amendment with the extension flag set too, of a chain without a permit:
\* the note is an AMEND_PERMIT note with a newly computed expiry date.
C38_Witness ==
    \E p \in Procs :
        /\ PermitSaved(p)
        /\ flow[p].json_data.amendment
        /\ flow[p].json_data.extension
        /\ ~LoadedExpiringPermit(p)
        /\ SavedPermit(p).notes[1].document_type = "AMEND_PERMIT"
        /\ SavedPermit(p).notes[1].expiry_date = SavedPermit(p).registration_ts + 1

----------------------------------------------------------------------------
(* Registration types without a document type *)

\* The builder of request p has run on a registration type that is no key of
\* the document type table.
BuiltUnknownType(p) ==
    /\ flow[p].kind = "transfer"
    /\ flow[p].pc \notin {"idle", "request"}
    /\ flow[p].json_data.registrationType \notin
            {"", "DECAL_REPLACE", "EXEMPTION_NON_RES", "EXEMPTION_RES", "MHREG", "PERMIT",
             "PERMIT_EXTENSION", "TRAND", "TRANS", "TRANS_AFFIDAVIT", "TRANS_ADMIN",
             "TRANS_WILL", "REG_STAFF_ADMIN"}

\* C33: a change registration builder called with a registration type without
\* an entry in REG_TO_DOC_TYPE fails with an unknown-type error of its own and
\* leaves nothing behind: no registration object with a generated id, no
\* change of the draft, no document.
C33_UnknownTypeFailsClean ==
    \A p \in Procs :
        BuiltUnknownType(p) =>
            /\ flow[p].pc = "raised"
            /\ flow[p].error = "UnknownTypeError"
            /\ flow[p].registration = NoReg
            /\ flow[p].registration_id = 0
            /\ flow[p].draft = NoJson

----------------------------------------------------------------------------
(* A superseded owner group stays as it is *)

\* C34: an owner group with status PREVIOUS never becomes ACTIVE again, and
\* its change_registration_id, the id of the registration that superseded it,
\* is changed by no later step, a later transfer whose deleteOwnerGroups names
\* the same groupId included.
C34_PreviousIsFinal ==
    [][\A x \in AllGroups :
          GroupAt(x).status_type = PREVIOUS =>
              /\ GroupAt(x)'.status_type = PREVIOUS
              /\ GroupAt(x)'.change_registration_id = GroupAt(x).change_registration_id]_vars

----------------------------------------------------------------------------
(* Frame of save_transfer *)

\* Request p is a transfer whose save_transfer runs in this step.
SaveTransferStep(p) ==
    /\ flow[p].kind = "transfer"
    /\ flow[p].pc = "saved"
    /\ flow'[p].pc = "returned"

\* A registration without its owner groups.
Rest(reg) == [f \in DOMAIN reg \ {"owner_groups"} |-> reg[f]]

\* C35: save_transfer changes only the owner groups whose group_id is in
\* deleteOwnerGroups: every other owner group of the root and of the change
\* registrations stays as it is, owners included, and so do the status, the
\* notes, the locations and the descriptions of every registration.
C35_SaveTransferFrame ==
    [][\A p \in Procs :
          SaveTransferStep(p) =>
              /\ Len(AllRegs') = Len(AllRegs)
              /\ \A r \in DOMAIN AllRegs : Rest(AllRegs[r]') = Rest(AllRegs[r])
              /\ \A x \in AllGroups :
                      GroupAt(x).group_id \notin flow[p].json_data.deleteOwnerGroups =>
                          GroupAt(x)' = GroupAt(x)]_vars

\* A transfer superseded group 1 of a home with two groups: group 2 is ACTIVE.
C35_Witness ==
    \E p \in Procs :
        /\ flow[p].kind = "transfer"
        /\ flow[p].pc = "returned"
        /\ flow[p].json_data.deleteOwnerGroups = {1}
        /\ Len(base_reg.owner_groups) = 2
        /\ base_reg.owner_groups[1].status_type = PREVIOUS
        /\ base_reg.owner_groups[1].change_registration_id = flow[p].registration_id
        /\ base_reg.owner_groups[2].status_type = ACTIVE

----------------------------------------------------------------------------
(* Frame of the builders *)

\* Request p calls its create_<kind>_from_json builder in this step.
BuilderStep(p) ==
    /\ flow[p].pc = "idle"
    /\ flow'[p].pc = "built"

----------------------------------------------------------------------------
(* pay_and_save_admin *)

\* administrative registrations and unit notes per run
MaxAdminFlows == 3

\* Administrative payloads: document type, note, cancelDocumentId and
\* updateDocumentId in every combination, with and without owner group changes.
AdminFlowInputs ==
    {<<"admin", [Json("", <<>>, a, TRUE, IF a = 1 THEN {1} ELSE {}, FALSE, FALSE, FALSE, nd, 0) EXCEPT
                    !.documentType = dt, !.cancelDocumentId = cd, !.updateDocumentId = ud]>> :
        a \in AddCounts, nd \in {"", "NCAN", "CAU"},
        dt \in {"", "NCAN", "NRED", "EXRE", "REGC_STAFF", "STAT", "CANCEL_PERMIT"},
        cd \in {"", DOC_ID}, ud \in {"", DOC_ID}}

AdminFlowNext ==
    \/ Request(1, AdminFlowInputs \cup {i \in NoteInputs : i[2].expiryDateTime = 0}
                   \cup {i \in PermitInputs : ~i[2].amendment /\ ~i[2].extension},
               MaxAdminFlows)
    \/ Save(1)
    \/ PriorUpdate(1)
    \/ AdminUpdate(1)
    \/ AdminUpdateRaises(1)
    \/ Respond(1)

AdminFlowSpec == BuilderInit /\ [][AdminFlowNext]_vars

\* The registration of request p is in the stored chain.
AdminSaved(p) ==
    /\ flow[p].kind = "admin"
    /\ \E i \in DOMAIN change_registrations :
            change_registrations[i].id = flow[p].registration_id

\* C39: once the administrative registration is saved, pay_and_save_admin
\* returns it, having applied at most one prior chain update routine, the
\* first of the priority order whose condition the payload meets; a payload
\* with a cancelDocumentId and no note does not make the request fail.
C39_OneRoutineNoFailure ==
    \A p \in Procs :
        AdminSaved(p) =>
            /\ flow[p].pc # "raised"
            /\ flow[p].pc = "returned" =>
                    /\ Len(flow[p].routines) <= 1
                    /\ flow[p].routines = admin_routines(flow[p].json_data)

----------------------------------------------------------------------------
(* Lookups that populate change_registrations *)

\* change registrations saved before and between the lookups
MaxChainFlows == 3

\* query.all() without order_by: the rows in an order the database chooses.
query_all(rows) ==
    {[i \in DOMAIN rows |-> rows[f[i]]] :
        f \in {g \in [DOMAIN rows -> DOMAIN rows] :
                    \A i, j \in DOMAIN rows : g[i] = g[j] => i = j}}

\* The registration row with the id, NoReg without one.
one_or_none(registration_id) ==
    IF \E r \in DOMAIN AllRegs : AllRegs[r].id = registration_id
    THEN AllRegs[CHOOSE r \in DOMAIN AllRegs : AllRegs[r].id = registration_id]
    ELSE NoReg

\* MhrRegistration.find_by_id(registration_id, search=True): the aggregates it
\* may return; the change registrations are every registration of the MHR
\* number that is not of type MHREG or MHREG_CONVERSION, read with .all().
find_by_id(registration_id) ==
    IF registration_id = 0 \/ one_or_none(registration_id) = NoReg
    THEN {NoAggregate}
    ELSE {[reg |-> one_or_none(registration_id), change_registrations |-> c] :
            c \in query_all(change_registrations)}

\* A caller loads the aggregate by MHR number.
FindAllByMhrNumber(p) ==
    /\ flow[p].pc \in {"idle", "found", "found_root"}
    /\ flow' = [flow EXCEPT ![p] =
                    [IdleFlow EXCEPT !.pc = "found", !.kind = "find_all_by_mhr_number",
                                     !.current_reg = find_all_by_mhr_number]]
    /\ UNCHANGED <<base_reg, change_registrations, reg_seq, pay_seq, now_ts>>

\* A caller loads the aggregate by the id of one of its registrations.
FindById(p) ==
    /\ flow[p].pc \in {"idle", "found", "found_root"}
    /\ \E registration_id \in 0..reg_seq :
        \E result \in find_by_id(registration_id) :
            /\ result # NoAggregate
            /\ flow' = [flow EXCEPT ![p] =
                            [IdleFlow EXCEPT !.pc = "found", !.kind = "find_by_id",
                                             !.registration_id = registration_id,
                                             !.current_reg = result]]
    /\ UNCHANGED <<base_reg, change_registrations, reg_seq, pay_seq, now_ts>>

\* A caller loads a registration by a document id.  create_change_from_json
\* gives every document the id of the base registration as registration_id,
\* so the registration found is the base registration and the branch that
\* reads the change registrations is not taken.
FindByDocumentIdOfChain(p) ==
    /\ flow[p].pc \in {"idle", "found", "found_root"}
    /\ \E registration_id \in 1..reg_seq :
        /\ one_or_none(registration_id) # NoReg
        /\ flow' = [flow EXCEPT ![p] =
                        [IdleFlow EXCEPT !.pc = "found_root", !.kind = "find_by_document_id",
                                         !.registration_id = registration_id,
                                         !.current_reg = [reg |-> base_reg,
                                                          change_registrations |-> <<>>]]]
    /\ UNCHANGED <<base_reg, change_registrations, reg_seq, pay_seq, now_ts>>

ChainInputs == {i \in NoteInputs : i[2].expiryDateTime = 0 /\ i[2].noteDocumentType = "CAU"}

ChainNext ==
    \/ Tick
    \/ Request(1, ChainInputs, MaxChainFlows)
    \/ Save(1)
    \/ Respond(1)
    \/ FindAllByMhrNumber(2)
    \/ FindById(2)
    \/ FindByDocumentIdOfChain(2)

ChainSpec == BuilderInit /\ [][ChainNext]_vars

\* The ids of the registrations of a sequence.
IdsOf(regs) == {regs[i].id : i \in DOMAIN regs}

\* C37: the change_registrations that a lookup populates are exactly the
\* registrations of the MHR number other than the root, each once, in
\* ascending registration_ts order, so that the last is the most recent.
C37_LookupChainOrdered ==
    [][\A p \in Procs :
          (flow'[p] # flow[p] /\ flow'[p].pc = "found") =>
              LET c == flow'[p].current_reg.change_registrations
              IN  /\ Len(c) = Len(change_registrations)
                  /\ IdsOf(c) = IdsOf(change_registrations)
                  /\ \A i, j \in DOMAIN c :
                          i < j => c[i].registration_ts <= c[j].registration_ts]_vars

----------------------------------------------------------------------------
(* Registration reports: resources/registration_utils.get_registration_report *)

ACCEPTED == "ACCEPTED"

\* The retry window of a queued report, in clock readings.
ReportRetryWindow == 1

\* model_utils.report_retry_elapsed: the window has passed since create_ts.
report_retry_elapsed(create_ts, now) == now > create_ts + ReportRetryWindow

\* No row of MhrRegistrationReport for the registration.
NoReport == [registration_id |-> 0, create_ts |-> 0, doc_storage_url |-> ""]

\* model_utils.get_doc_storage_name(registration)
get_doc_storage_name(registration) == "report-1.pdf"

\* The base registration with its row of MhrRegistrationReport (report).
ReportInit ==
    /\ base_reg \in {[f \in DOMAIN NoReg \cup {"report"} |->
                        IF f = "report" THEN NoReport
                        ELSE create_new_from_json(i[2], 1, 0)[f]] :
                        i \in RegistrationInputs}
    /\ change_registrations = <<>>
    /\ reg_seq = 1
    /\ pay_seq = 1
    /\ now_ts = 0
    /\ flow = [p \in Procs |-> IdleFlow]

\* enqueue_registration_report: the row without a doc_storage_url that tells
\* the report request is pending, created at the registration's time.
enqueue_registration_report(registration) ==
    [registration_id |-> registration.id, create_ts |-> registration.registration_ts,
     doc_storage_url |-> ""]

\* new_registration_report: the report is generated; the row is written with
\* the doc_storage_url when the report service answers OK or CREATED.
new_registration_report(registration, now, pdf_ok) ==
    [report |-> IF pdf_ok
                THEN [registration_id |-> registration.id, create_ts |-> now,
                      doc_storage_url |-> get_doc_storage_name(registration)]
                ELSE registration.report,
     response |-> [status_code |-> OK, body |-> IF pdf_ok THEN "pdf" ELSE "error",
                   get_pdf |-> IF pdf_ok THEN "ok" ELSE "failed"]]

\* get_registration_report that stores the document name after a retry
\* whatever the report service answered.
get_registration_report_stores_failure(registration, now, pdf_ok, large) ==
    LET report_info == registration.report
    IN  IF report_info.registration_id # 0 /\ report_info.doc_storage_url # ""
        THEN [report |-> report_info,
              response |-> [status_code |-> OK, body |-> "stored", get_pdf |-> "none"]]
        ELSE IF report_info.registration_id # 0
        THEN IF ~report_retry_elapsed(report_info.create_ts, now)
             THEN [report |-> report_info,
                   response |-> [status_code |-> ACCEPTED, body |-> "json", get_pdf |-> "none"]]
             ELSE [report |-> [report_info EXCEPT
                                    !.create_ts = now,
                                    !.doc_storage_url = get_doc_storage_name(registration)],
                   response |-> [status_code |-> OK,
                                 body |-> IF pdf_ok THEN "pdf" ELSE "error",
                                 get_pdf |-> IF pdf_ok THEN "ok" ELSE "failed"]]
        ELSE IF large
        THEN [report |-> enqueue_registration_report(registration),
              response |-> [status_code |-> ACCEPTED, body |-> "json", get_pdf |-> "none"]]
        ELSE new_registration_report(registration, now, pdf_ok)

\* get_registration_report: the row of the registration after the call and
\* the response.  pdf_ok is the answer of the report service, large tells
\* that the report data is too large to generate in real time.
get_registration_report(registration, now, pdf_ok, large) ==
    LET report_info == registration.report
    IN  IF report_info.registration_id # 0 /\ report_info.doc_storage_url # ""
        THEN [report |-> report_info,
              response |-> [status_code |-> OK, body |-> "stored", get_pdf |-> "none"]]
        ELSE IF report_info.registration_id # 0
        THEN IF ~report_retry_elapsed(report_info.create_ts, now)
             THEN [report |-> report_info,
                   response |-> [status_code |-> ACCEPTED, body |-> "json", get_pdf |-> "none"]]
             ELSE [report |-> IF pdf_ok
                              THEN [report_info EXCEPT
                                        !.create_ts = now,
                                        !.doc_storage_url = get_doc_storage_name(registration)]
                              ELSE report_info,
                   response |-> [status_code |-> OK,
                                 body |-> IF pdf_ok THEN "pdf" ELSE "error",
                                 get_pdf |-> IF pdf_ok THEN "ok" ELSE "failed"]]
        ELSE IF large
        THEN [report |-> enqueue_registration_report(registration),
              response |-> [status_code |-> ACCEPTED, body |-> "json", get_pdf |-> "none"]]
        ELSE new_registration_report(registration, now, pdf_ok)

\* A caller asks for the report of the registration.
GetRegistrationReport(p) ==
    /\ flow[p].pc \in {"idle", "reported"}
    /\ \E pdf_ok \in BOOLEAN, large \in BOOLEAN :
        LET result == get_registration_report(base_reg, now_ts, pdf_ok, large)
        IN  /\ base_reg' = [base_reg EXCEPT !.report = result.report]
            /\ flow' = [flow EXCEPT ![p] =
                            [IdleFlow EXCEPT !.pc = "reported", !.kind = "report",
                                             !.response = result.response]]
    /\ UNCHANGED <<change_registrations, reg_seq, pay_seq, now_ts>>

ReportNext == Tick \/ GetRegistrationReport(1) \/ GetRegistrationReport(2)

ReportSpec == ReportInit /\ [][ReportNext]_vars

\* Request p gets its answer from get_registration_report in this step.
ReportStep(p) == flow'[p] # flow[p] /\ flow'[p].pc = "reported"

Stored(report_info) == report_info.registration_id # 0 /\ report_info.doc_storage_url # ""

Pending(report_info) == report_info.registration_id # 0 /\ report_info.doc_storage_url = ""

====
